---- MODULE Spec2Model ----
(***************************************************************************)
(* Bytecode compiler (src/src/compile.rs) and bytecode interpreter         *)
(* (src/unused/bytecode.rs) of rune, an Emacs-Lisp evaluator.              *)
(*                                                                         *)
(* Lisp objects are tagged tuples <<tag, ...>>.  The compiler is a         *)
(* function from a compiler record (codes, constants, vars, env) to a      *)
(* compiler record; the interpreter is a function from a routine record    *)
(* (stack, call_frames, frame) and an environment to the next routine and  *)
(* environment.  Errors are tuples whose first element is the name of the  *)
(* error: <<"ArgCount", expected, got>>, <<"VoidVariable", name>>, ...     *)
(***************************************************************************)
EXTENDS Integers, Sequences, FiniteSets, TLC

(***************************************************************************)
(* Bounds of the model.                                                    *)
(***************************************************************************)
\* opcodes one run of Routine::run may dispatch before the model stops it
MaxSteps == 40
\* nested macro expansions one compile may perform before the host stack
\* is taken to be exhausted
MaxExpand == 3
\* nested evaluations and loop iterations the direct evaluation of one form
\* may take before the model takes it to diverge
MaxEval == 16

(***************************************************************************)
(* Statements.                                                             *)
(***************************************************************************)
\* let v = ...; K: the statements K that follow a let, applied to its value
Let(v, K(_)) == K(v)

\* the Ok(()) of a Result
NoErr == <<"ok">>

(***************************************************************************)
(* Objects.                                                                *)
(***************************************************************************)
Nil == <<"nil">>
IntObj(n) == <<"int", n>>
Sym(s) == <<"sym", s>>
Cons(a, d) == <<"cons", a, d>>
\* the absence of a binding in a symbol's value or function cell
Unbound == <<"unbound">>

\* the tag of an object; also the Type an Error::from_object reports for it
Tag(o) == o[1]
IsCons(o) == Tag(o) = "cons"
IsSym(o) == Tag(o) = "sym"
SymName(o) == o[2]
ConsCar(o) == o[2]
ConsCdr(o) == o[3]

RECURSIVE slice_into_list(_, _)
\* fns.rs slice_into_list: fold the slice from its end, consing onto tail
slice_into_list(slice, tail) ==
    IF Len(slice) = 0 THEN tail
    ELSE Cons(Head(slice), slice_into_list(Tail(slice), tail))

\* the reader's list (a b c) for the sequence <<a, b, c>>
L(seq) == slice_into_list(seq, Nil)

RECURSIVE ListCars(_)
\* ElemIter: the cars of a chain of cons cells, in order
ListCars(o) == IF IsCons(o) THEN <<ConsCar(o)>> \o ListCars(ConsCdr(o)) ELSE <<>>

(***************************************************************************)
(* Errors with an argument taken from the offending object or call.        *)
(***************************************************************************)
ArgCount(expected, got) == <<"ArgCount", expected, got>>
TypeError(expected, obj) == <<"TypeError", expected, Tag(obj)>>

(***************************************************************************)
(* Fixed-width integers.                                                   *)
(***************************************************************************)
U16Max == 65535
AsU8(x) == x % 256
AsU16(x) == x % 65536
AsI16(x) == ((x + 32768) % 65536) - 32768
\* (x >> 8) as u8 for a 16-bit x, arithmetic shift; the low byte is AsU8(x)
HighByte(x) == AsU8(x \div 256)

(***************************************************************************)
(* Opcodes.  Each parameterized family takes eight consecutive bytes:      *)
(* base + 0 .. base + 5 inline the operand, base + 6 (N) is followed by    *)
(* one operand byte and base + 7 (N2) by two.                              *)
(***************************************************************************)
OpCode ==
    [StackRef0 |-> 0, StackSet0 |-> 8, VarRef0 |-> 16, VarSet0 |-> 24,
     Constant0 |-> 32, Call0 |-> 40, Discard |-> 48, DiscardN |-> 49,
     DiscardNKeepTOS |-> 50, Duplicate |-> 51, Jump |-> 52, JumpNil |-> 53,
     JumpNotNil |-> 54, JumpNilElsePop |-> 55, JumpNotNilElsePop |-> 56,
     Ret |-> 57]

JumpOps ==
    {OpCode.Jump, OpCode.JumpNil, OpCode.JumpNotNil, OpCode.JumpNilElsePop,
     OpCode.JumpNotNilElsePop}

JUMP_SLOTS == 2

\* ghost: an operand byte carries no static depth
NoDepth == -1
\* None of Option<Symbol>
NoneSym == ""

(***************************************************************************)
(* CodeVec.  codes[i + 1] is the byte at index i of the vector; depths is  *)
(* a ghost vector that holds, for the first byte of every opcode, the      *)
(* length of vars when the compiler emitted it.                            *)
(***************************************************************************)
\* CodeVec::push_op, and Vec::push of an operand byte with d = NoDepth
push(c, byte, d) ==
    [c EXCEPT !.codes = Append(@, byte), !.depths = Append(@, d)]

push_op_n(c, op, arg, d) == push(push(c, op, d), AsU8(arg), NoDepth)

push_op_n2(c, op, arg, d) ==
    push(push(push(c, op, d), HighByte(arg), NoDepth), AsU8(arg), NoDepth)

\* SubOverflows: the i16 subtraction a - b - JUMP_SLOTS leaves the range of
\* i16: a build with overflow checks panics there, a release build wraps
set_jump_placeholder(c, index) ==
    LET offset == AsI16(AsI16(Len(c.codes)) - AsI16(index) - JUMP_SLOTS)
        SubOverflows(a, b) ==
            \/ a - b # AsI16(a - b)
            \/ AsI16(a - b) - JUMP_SLOTS # AsI16(AsI16(a - b) - JUMP_SLOTS)
    IN  IF c.err # NoErr THEN c
        ELSE IF c.dbg /\ SubOverflows(AsI16(Len(c.codes)), AsI16(index))
        THEN [c EXCEPT !.err = <<"panic", "attempt to subtract with overflow">>]
        ELSE [c EXCEPT !.codes[index + 1] = HighByte(offset),
                       !.codes[index + 2] = AsU8(offset)]

push_back_jump(c, index) ==
    LET offset == AsI16(AsI16(index) - AsI16(Len(c.codes)) - JUMP_SLOTS)
        SubOverflows(a, b) ==
            \/ a - b # AsI16(a - b)
            \/ AsI16(a - b) - JUMP_SLOTS # AsI16(AsI16(a - b) - JUMP_SLOTS)
    IN  IF c.dbg /\ SubOverflows(AsI16(index), AsI16(Len(c.codes)))
        THEN [c EXCEPT !.err = <<"panic", "attempt to subtract with overflow">>]
        ELSE push(push(c, HighByte(offset), NoDepth), AsU8(offset), NoDepth)

\* macro emit_op!: the shortest encoding of a family's opcode for idx:
\* $op 0 .. $op 5, $op N up to u8::MAX, $op N2 beyond
emit_op(c, base, idx, d) ==
    IF idx <= 5 THEN push(c, base + idx, d)
    ELSE IF idx <= 255 THEN push_op_n(c, base + 6, idx, d)
    ELSE push_op_n2(c, base + 7, idx, d)

(***************************************************************************)
(* ConstVec.                                                               *)
(***************************************************************************)
\* <<pool after the call, index returned>>: the index of the first entry
\* equal to obj (Vec::iter().position), or of obj appended
insert_or_get(consts, obj) ==
    IF \E i \in 1..Len(consts) : consts[i] = obj
    THEN <<consts,
           (CHOOSE i \in 1..Len(consts) :
                /\ consts[i] = obj
                /\ \A j \in 1..(i - 1) : consts[j] # obj) - 1>>
    ELSE <<Append(consts, obj), Len(consts)>>

\* Vec::iter().rposition(|x| x == Some(sym)), 0-based, or -1 for None
RPosition(vars, name) ==
    IF \E i \in 1..Len(vars) : vars[i] = name
    THEN (CHOOSE i \in 1..Len(vars) :
              /\ vars[i] = name
              /\ \A j \in (i + 1)..Len(vars) : vars[j] # name) - 1
    ELSE -1

\* Vec::pop, the popped element dropped
Pop(seq) == IF Len(seq) = 0 THEN seq ELSE SubSeq(seq, 1, Len(seq) - 1)
\* Vec::truncate
Truncate(seq, n) == IF n < Len(seq) THEN SubSeq(seq, 1, n) ELSE seq

(***************************************************************************)
(* Compiler.  c.err is the Result the compiler method returns; once it is  *)
(* an error every later method leaves the record alone (the ? operator).   *)
(***************************************************************************)
Failed(c) == c.err # NoErr
Fail(c, e) == [c EXCEPT !.err = e]

\* Compiler::new
\* c.budget is the host stack left for nested macro expansions, c.log the
\* ghost record of the expanders dispatched, c.dbg the kind of build
NewCompiler(vars, env, budget, log, dbg) ==
    [codes |-> <<>>, depths |-> <<>>, constants |-> <<>>, vars |-> vars,
     env |-> env, err |-> NoErr, budget |-> budget, log |-> log, dbg |-> dbg]

\* const_ref with the index cast to u16 instead of converted
const_ref_truncating(c, obj, var_ref) ==
    IF Failed(c) THEN c
    ELSE Let(insert_or_get(c.constants, obj), LAMBDA ins :
         emit_op([c EXCEPT !.vars = Append(@, var_ref), !.constants = ins[1]],
                 OpCode.Constant0, AsU16(ins[2]), Len(c.vars)))

\* ConstVec::insert followed by emit_const
const_ref(c, obj, var_ref) ==
    IF Failed(c) THEN c
    ELSE Let(insert_or_get(c.constants, obj), LAMBDA ins :
         LET c1 == [c EXCEPT !.vars = Append(@, var_ref), !.constants = ins[1]]
         IN  IF ins[2] > U16Max THEN Fail(c1, <<"ConstOverflow">>)
             ELSE emit_op(c1, OpCode.Constant0, ins[2], Len(c.vars)))

\* func is the LispFn, stored as the object <<"fn", func>>
add_const_lambda(c, func) ==
    IF Failed(c) THEN c
    ELSE LET c1 == [c EXCEPT !.vars = Append(@, NoneSym),
                             !.constants = Append(@, <<"fn", func>>)]
         IN  IF Len(c.constants) > U16Max THEN Fail(c1, <<"ConstOverflow">>)
             ELSE emit_op(c1, OpCode.Constant0, Len(c.constants), Len(c.vars))

stack_ref(c, idx, var_ref) ==
    IF Failed(c) THEN c
    ELSE IF Len(c.vars) - idx - 1 > U16Max THEN Fail(c, <<"StackSizeOverflow">>)
    ELSE emit_op([c EXCEPT !.vars = Append(@, var_ref)], OpCode.StackRef0,
                 Len(c.vars) - idx - 1, Len(c.vars))

stack_set(c, idx) ==
    IF Failed(c) THEN c
    ELSE IF Len(c.vars) - idx - 1 > U16Max THEN Fail(c, <<"StackSizeOverflow">>)
    ELSE emit_op([c EXCEPT !.vars = Pop(@)], OpCode.StackSet0,
                 Len(c.vars) - idx - 1, Len(c.vars))

var_set(c, idx) ==
    IF Failed(c) THEN c
    ELSE [emit_op(c, OpCode.VarSet0, idx, Len(c.vars)) EXCEPT !.vars = Pop(@)]

discard(c) ==
    IF Failed(c) THEN c
    ELSE [push(c, OpCode.Discard, Len(c.vars)) EXCEPT !.vars = Pop(@)]

duplicate(c) ==
    IF Failed(c) THEN c
    ELSE [push(c, OpCode.Duplicate, Len(c.vars)) EXCEPT !.vars = Append(@, NoneSym)]

\* Compiler::jump, d the ghost depth of its opcode:
\* <<compiler after push_jump_placeholder, (place, jump_code)>>
jump(c, jump_code, d) ==
    LET c1 == IF jump_code = OpCode.Jump THEN c ELSE [c EXCEPT !.vars = Pop(@)]
    IN  <<push(push(push(c1, jump_code, d), 0, NoDepth), 0, NoDepth),
          <<Len(c.codes) + 1, jump_code>>>>

set_jump_target(c, target) ==
    IF Failed(c) THEN c
    ELSE set_jump_placeholder(
             IF target[2] \in {OpCode.JumpNilElsePop, OpCode.JumpNotNilElsePop}
             THEN [c EXCEPT !.vars = Append(@, NoneSym)]
             ELSE c,
             target[1])

jump_back(c, jump_code, location) ==
    IF Failed(c) THEN c
    ELSE push_back_jump(push(c, OpCode.Jump, Len(c.vars)), location)

(***************************************************************************)
(* Arity descriptor of LispFn and SubrFn.                                  *)
(***************************************************************************)
FnArgs(required, optional, rest) ==
    [required |-> required, optional |-> optional, rest |-> rest]

\* FnArgs::num_of_fill_args: <<error or NoErr, number of nils to add>>
num_of_fill_args(args, arg_cnt) ==
    IF arg_cnt < args.required
    THEN <<ArgCount(args.required, arg_cnt), 0>>
    ELSE IF ~args.rest /\ arg_cnt > args.required + args.optional
    THEN <<ArgCount(args.required + args.optional, arg_cnt), 0>>
    ELSE IF arg_cnt < args.required + args.optional
    THEN <<NoErr, args.required + args.optional - arg_cnt>>
    ELSE <<NoErr, 0>>

rest_args_start(args) == args.required + args.optional

\* Expression, with the ghost depths of its CodeVec
Expression(op_codes, constants, depths) ==
    [op_codes |-> op_codes, constants |-> constants, depths |-> depths]

\* LispFn::new
LispFnNew(op_codes, constants, depths, required, optional, rest) ==
    [body |-> Expression(op_codes, constants, depths),
     args |-> FnArgs(required, optional, rest)]

(***************************************************************************)
(* Interpreter: Ip, CallFrame, LispStack.                                  *)
(***************************************************************************)
\* CallFrame::new
CallFrame(func, frame_start) == [ip |-> 0, code |-> func, start |-> frame_start]

\* the next k bytes of the frame's code exist
InRange(f, k) == f.ip >= 0 /\ f.ip + k <= Len(f.code.op_codes)

\* the byte i places after the instruction pointer
ByteAt(f, i) == f.code.op_codes[f.ip + i + 1]

\* Ip::next2 on the two bytes at the instruction pointer
next2(first, second) == first + 256 * second

\* a Rust panic (index out of bounds, unwrap on None, failed debug_assert)
PanicR(r, why) == [r EXCEPT !.status = "panic", !.err = <<"panic", why>>]
ErrR(r, e) == [r EXCEPT !.status = "err", !.err = e]

Top(stack) == stack[Len(stack)]

\* LispStack::from_end; its debug_assert and the index that uses it fail
\* when i >= len
from_end(stack, i) == Len(stack) - (i + 1)

\* LispStack::ref_at, 0-based from the top
ref_at(stack, i) == stack[from_end(stack, i) + 1]

\* LispStack::push_ref
push_ref(r, i) ==
    IF i >= Len(r.stack) THEN PanicR(r, "from_end")
    ELSE [r EXCEPT !.stack = Append(@, ref_at(r.stack, i))]

\* LispStack::set_ref: Vec::swap_remove(from_end(i)) puts the top in the slot
set_ref(r, i) ==
    IF i >= Len(r.stack) THEN PanicR(r, "from_end")
    ELSE [r EXCEPT !.stack =
             [k \in 1..(Len(@) - 1) |->
                 IF k = from_end(@, i) + 1 THEN Top(@) ELSE @[k]]]

\* LispStack::take_slice: <<the slice exists, slice>>; with i = 0 the
\* subtraction i - 1 overflows: a debug build panics, a release build wraps
\* to the empty slice at the end of the stack
take_slice(stack, i, dbg) ==
    IF i = 0 THEN <<~dbg, <<>>>>
    ELSE IF i > Len(stack) THEN <<FALSE, <<>>>>
    ELSE <<TRUE, SubSeq(stack, Len(stack) - i + 1, Len(stack))>>

\* fill_extra_args: fill_args times push(Object::Nil)
fill_extra_args(stack, fill_args) == stack \o [i \in 1..fill_args |-> Nil]

\* CallFrame::get_const; the caller has checked i < Len(f.code.constants)
get_const(f, i) == f.code.constants[i + 1]

(***************************************************************************)
(* Environment and symbol cells.                                           *)
(***************************************************************************)
SubrNames == {"+", "1+", "list", "cons", "car", "defalias"}
SymbolNames ==
    SubrNames \cup {"quote", "function", "progn", "setq", "defvar", "let", "let*",
                    "if", "cond", "while", "lambda", "macro", "&optional", "&rest",
                    "x", "y", "z", "a", "b", "foo", "bar", "baz", "bob", "guz",
                    "m", "r", "f", "g", "h", "has_rest", "nofn"}

\* Environment::default() with the host subroutines defined; a subroutine
\* is the object <<"subr", name>>
DefaultEnv ==
    [vars |-> [s \in SymbolNames |-> Unbound],
     funcs |-> [s \in SymbolNames |->
                   IF s \in SubrNames THEN <<"subr", s>> ELSE Unbound],
     macro_callstack |-> <<>>]

\* data::symbol_function: the function cell as an object, nil when empty
symbol_function(e, name) ==
    IF e.funcs[name] = Unbound THEN Nil ELSE e.funcs[name]

IsMacroCell(cell) ==
    /\ IsCons(cell)
    /\ IsSym(ConsCar(cell))
    /\ SymName(ConsCar(cell)) = "macro"

RECURSIVE ResolveCell(_, _, _)
\* the function cell at the end of a chain of symbol aliases
ResolveCell(e, cell, hops) ==
    IF IsSym(cell)
    THEN IF hops = 0 THEN Unbound ELSE ResolveCell(e, e.funcs[SymName(cell)], hops - 1)
    ELSE cell

\* Symbol::resolve_callable: <<kind, callable>>, kind "None" for no binding
resolve_callable(e, name) ==
    Let(ResolveCell(e, e.funcs[name], Cardinality(SymbolNames)), LAMBDA cell :
        IF Tag(cell) = "fn" THEN <<"LispFn", cell>>
        ELSE IF Tag(cell) = "subr" THEN <<"SubrFn", cell>>
        ELSE IF IsMacroCell(cell) THEN <<"Macro", cell>>
        ELSE IF IsCons(cell) THEN <<"Cons", cell>>
        ELSE <<"None", cell>>)

(***************************************************************************)
(* Host subroutines.                                                       *)
(***************************************************************************)
SubrArgs(name) ==
    CASE name = "+" -> FnArgs(0, 0, TRUE)
      [] name = "1+" -> FnArgs(1, 0, FALSE)
      [] name = "list" -> FnArgs(0, 0, TRUE)
      [] name = "cons" -> FnArgs(2, 0, FALSE)
      [] name = "car" -> FnArgs(1, 0, FALSE)
      [] name = "defalias" -> FnArgs(2, 1, FALSE)

\* the Result of a subroutine and the environment it leaves
SubrResult(err, value, e) == [err |-> err, value |-> value, env |-> e]

\* (func.subr)(slice, env, arena)
ApplySubr(name, args, e) ==
    CASE name = "+" ->
           LET sum[i \in 0..Len(args)] == IF i = 0 THEN 0 ELSE sum[i - 1] + args[i][2]
           IN  IF \E i \in 1..Len(args) : Tag(args[i]) # "int"
               THEN SubrResult(
                      TypeError("number",
                                args[CHOOSE i \in 1..Len(args) : Tag(args[i]) # "int"]),
                      Nil, e)
               ELSE SubrResult(NoErr, IntObj(sum[Len(args)]), e)
      [] name = "1+" ->
           IF Tag(args[1]) # "int" THEN SubrResult(TypeError("number", args[1]), Nil, e)
           ELSE SubrResult(NoErr, IntObj(args[1][2] + 1), e)
      [] name = "list" -> SubrResult(NoErr, L(args), e)
      [] name = "cons" -> SubrResult(NoErr, Cons(args[1], args[2]), e)
      [] name = "car" ->
           IF IsCons(args[1]) THEN SubrResult(NoErr, ConsCar(args[1]), e)
           ELSE IF args[1] = Nil THEN SubrResult(NoErr, Nil, e)
           ELSE SubrResult(TypeError("list", args[1]), Nil, e)
      [] name = "defalias" ->
           IF ~IsSym(args[1]) THEN SubrResult(TypeError("symbol", args[1]), Nil, e)
           ELSE IF Tag(args[2]) \in {"fn", "subr", "cons", "sym"}
           THEN SubrResult(NoErr, args[1],
                           [e EXCEPT !.funcs[SymName(args[1])] = args[2]])
           ELSE SubrResult(TypeError("function", args[2]), Nil, e)

(***************************************************************************)
(* Reference evaluator: the Lisp semantics of the special forms and of     *)
(* function application, evaluated directly on the form.  lex is the       *)
(* lexical environment, a sequence of <<name, value>>, innermost last.     *)
(* An evaluation that does not end within the bound MaxEval has the error  *)
(* <<"diverges">>.                                                         *)
(***************************************************************************)
RR(err, value, e, lex) == [err |-> err, value |-> value, env |-> e, lex |-> lex]

RECURSIVE BindParams(_, _, _)
\* the bindings a lambda list gives the actuals; mode is "req", "opt" or "rest"
BindParams(params, args, mode) ==
    IF Len(params) = 0 THEN <<>>
    ELSE LET p == SymName(Head(params))
         IN  IF p = "&optional" THEN BindParams(Tail(params), args, "opt")
             ELSE IF p = "&rest" THEN BindParams(Tail(params), args, "rest")
             ELSE IF mode = "rest" THEN <<<<p, L(args)>>>>
             ELSE IF Len(args) = 0
             THEN <<<<p, Nil>>>> \o BindParams(Tail(params), args, mode)
             ELSE <<<<p, Head(args)>>>> \o BindParams(Tail(params), Tail(args), mode)

RECURSIVE RefEval(_, _, _, _)
RECURSIVE RefProgn(_, _, _, _)
RECURSIVE RefSetq(_, _, _, _)
RECURSIVE RefLetBind(_, _, _, _, _, _)
RECURSIVE RefCond(_, _, _, _)
RECURSIVE RefWhile(_, _, _, _)
RECURSIVE RefArgs(_, _, _, _, _)
RECURSIVE interpreter_call(_, _, _, _, _)

\* implicit progn: the value of the last form, nil for no form
RefProgn(forms, lex, e, fuel) ==
    IF Len(forms) = 0 THEN RR(NoErr, Nil, e, lex)
    ELSE Let(RefEval(Head(forms), lex, e, fuel), LAMBDA r1 :
         IF r1.err # NoErr \/ Len(forms) = 1 THEN r1
         ELSE RefProgn(Tail(forms), r1.lex, r1.env, fuel))

RefSetq(args, lex, e, fuel) ==
    IF Len(args) = 1 THEN RR(ArgCount(2, 1), Nil, e, lex)
    ELSE Let(RefEval(args[2], lex, e, fuel), LAMBDA r1 :
         LET name == SymName(args[1])
             \* the innermost lexical binding of a name, 0 when there is none
             LexPos(l, n) ==
                 IF \E i \in 1..Len(l) : l[i][1] = n
                 THEN CHOOSE i \in 1..Len(l) :
                          /\ l[i][1] = n
                          /\ \A j \in (i + 1)..Len(l) : l[j][1] # n
                 ELSE 0
             pos == LexPos(r1.lex, name)
             r2 == IF pos > 0
                   THEN RR(NoErr, r1.value, r1.env,
                           [r1.lex EXCEPT ![pos] = <<name, r1.value>>])
                   ELSE RR(NoErr, r1.value,
                           [r1.env EXCEPT !.vars[name] = r1.value], r1.lex)
         IN  IF r1.err # NoErr THEN r1
             ELSE IF ~IsSym(args[1]) THEN RR(TypeError("symbol", args[1]), Nil, e, lex)
             ELSE IF Len(args) = 2 THEN r2
             ELSE RefSetq(SubSeq(args, 3, Len(args)), r2.lex, r2.env, fuel))

\* the bindings of a let: values are evaluated in lex; new holds the
\* bindings made so far, visible to later values only when sequential
RefLetBind(bindings, parallel, lex, new, e, fuel) ==
    IF Len(bindings) = 0 THEN RR(NoErr, Nil, e, lex \o new)
    ELSE LET b == Head(bindings)
             name == IF IsSym(b) THEN SymName(b) ELSE SymName(ConsCar(b))
             vals == IF IsSym(b) THEN <<>> ELSE ListCars(ConsCdr(b))
             scope == IF parallel THEN lex ELSE lex \o new
         IN  IF ~IsSym(b) /\ ~IsCons(b) THEN RR(TypeError("cons", b), Nil, e, lex)
             ELSE IF Len(vals) > 1
             THEN RR(<<"LetValueCount", Len(vals)>>, Nil, e, lex)
             ELSE Let(IF Len(vals) = 0 THEN RR(NoErr, Nil, e, scope)
                      ELSE RefEval(vals[1], scope, e, fuel), LAMBDA r1 :
                  IF r1.err # NoErr THEN r1
                  ELSE RefLetBind(
                           Tail(bindings), parallel, SubSeq(r1.lex, 1, Len(lex)),
                           Append(IF parallel THEN new
                                  ELSE SubSeq(r1.lex, Len(lex) + 1, Len(r1.lex)),
                                  <<name, r1.value>>),
                           r1.env, fuel))

RefCond(clauses, lex, e, fuel) ==
    IF Len(clauses) = 0 THEN RR(NoErr, Nil, e, lex)
    ELSE LET forms == ListCars(Head(clauses))
         IN  IF Len(forms) = 0 THEN RefCond(Tail(clauses), lex, e, fuel)
             ELSE Let(RefEval(forms[1], lex, e, fuel), LAMBDA r1 :
                  IF r1.err # NoErr THEN r1
                  ELSE IF r1.value = Nil THEN RefCond(Tail(clauses), r1.lex, r1.env, fuel)
                  ELSE IF Len(forms) = 1 THEN r1
                  ELSE RefProgn(Tail(forms), r1.lex, r1.env, fuel))

RefWhile(forms, lex, e, fuel) ==
    IF fuel = 0 THEN RR(<<"diverges">>, Nil, e, lex)
    ELSE Let(RefEval(forms[1], lex, e, fuel - 1), LAMBDA r1 :
         IF r1.err # NoErr THEN r1
         ELSE IF r1.value = Nil THEN RR(NoErr, Nil, r1.env, r1.lex)
         ELSE Let(RefProgn(Tail(forms), r1.lex, r1.env, fuel - 1), LAMBDA r2 :
              IF r2.err # NoErr THEN r2
              ELSE RefWhile(forms, r2.lex, r2.env, fuel - 1)))

\* the values of the argument forms, left to right, in the value field
RefArgs(forms, vals, lex, e, fuel) ==
    IF Len(forms) = 0 THEN RR(NoErr, vals, e, lex)
    ELSE Let(RefEval(Head(forms), lex, e, fuel), LAMBDA r1 :
         IF r1.err # NoErr THEN r1
         ELSE RefArgs(Tail(forms), Append(vals, r1.value), r1.lex, r1.env, fuel))

\* interpreter::call: apply an interpreted (lambda PARAMS BODY...) to the
\* arguments; who names the function in the error
interpreter_call(lambda_form, who, args, e, fuel) ==
    LET lambda == ListCars(lambda_form)
    IN  IF Len(lambda) < 2 \/ lambda[1] # Sym("lambda")
        THEN RR(<<"Invalid Function", who>>, Nil, e, <<>>)
        ELSE RefProgn(SubSeq(lambda, 3, Len(lambda)),
                      BindParams(ListCars(lambda[2]), args, "req"), e, fuel)

\* application of the function bound to name to evaluated arguments
RefApply(name, args, e, fuel) ==
    Let(resolve_callable(e, name), LAMBDA callee :
    IF callee[1] = "None" THEN RR(<<"VoidFunction", name>>, Nil, e, <<>>)
    ELSE IF callee[1] = "SubrFn"
    THEN LET fill == num_of_fill_args(SubrArgs(callee[2][2]), Len(args))
         IN  IF fill[1] # NoErr THEN RR(fill[1], Nil, e, <<>>)
             ELSE Let(ApplySubr(callee[2][2], fill_extra_args(args, fill[2]), e),
                      LAMBDA sub : RR(sub.err, sub.value, sub.env, <<>>))
    ELSE IF callee[1] = "Cons" THEN interpreter_call(callee[2], name, args, e, fuel)
    ELSE RR(<<"unsupported", callee[1]>>, Nil, e, <<>>))

RefEval(form, lex, e, fuel) ==
    IF fuel = 0 THEN RR(<<"diverges">>, Nil, e, lex)
    ELSE IF IsSym(form)
    THEN LET \* the innermost lexical binding of a name, 0 when there is none
             LexPos(l, n) ==
                 IF \E i \in 1..Len(l) : l[i][1] = n
                 THEN CHOOSE i \in 1..Len(l) :
                          /\ l[i][1] = n
                          /\ \A j \in (i + 1)..Len(l) : l[j][1] # n
                 ELSE 0
             pos == LexPos(lex, SymName(form))
         IN  IF pos > 0 THEN RR(NoErr, lex[pos][2], e, lex)
             ELSE IF e.vars[SymName(form)] = Unbound
             THEN RR(<<"VoidVariable", SymName(form)>>, Nil, e, lex)
             ELSE RR(NoErr, e.vars[SymName(form)], e, lex)
    ELSE IF ~IsCons(form) THEN RR(NoErr, form, e, lex)
    ELSE IF ~IsSym(ConsCar(form)) THEN RR(TypeError("symbol", ConsCar(form)), Nil, e, lex)
    ELSE LET name == SymName(ConsCar(form))
             args == ListCars(ConsCdr(form))
             n == Len(args)
         IN  CASE name \in {"quote", "function"} ->
                    IF n # 1 THEN RR(ArgCount(1, n), Nil, e, lex)
                    ELSE RR(NoErr, args[1], e, lex)
               [] name = "progn" -> RefProgn(args, lex, e, fuel - 1)
               [] name = "setq" ->
                    IF n = 0 THEN RR(ArgCount(2, 0), Nil, e, lex)
                    ELSE RefSetq(args, lex, e, fuel - 1)
               [] name \in {"let", "let*"} ->
                    IF n = 0 THEN RR(ArgCount(1, 0), Nil, e, lex)
                    ELSE Let(RefLetBind(ListCars(args[1]), name = "let",
                                        lex, <<>>, e, fuel - 1), LAMBDA r1 :
                         IF r1.err # NoErr THEN r1
                         ELSE Let(RefProgn(Tail(args), r1.lex, r1.env, fuel - 1),
                                  LAMBDA r2 :
                              IF r2.err # NoErr THEN r2
                              ELSE RR(NoErr, r2.value, r2.env,
                                      SubSeq(r2.lex, 1, Len(lex)))))
               [] name = "if" ->
                    IF n < 2 THEN RR(ArgCount(2, n), Nil, e, lex)
                    ELSE Let(RefEval(args[1], lex, e, fuel - 1), LAMBDA r1 :
                         IF r1.err # NoErr THEN r1
                         ELSE IF r1.value # Nil
                         THEN RefEval(args[2], r1.lex, r1.env, fuel - 1)
                         ELSE RefProgn(SubSeq(args, 3, n), r1.lex, r1.env, fuel - 1))
               [] name = "cond" -> RefCond(args, lex, e, fuel - 1)
               [] name = "while" ->
                    IF n = 0 THEN RR(ArgCount(1, 0), Nil, e, lex)
                    ELSE RefWhile(args, lex, e, fuel - 1)
               [] name = "lambda" -> RR(NoErr, form, e, lex)
               [] OTHER ->
                    Let(RefArgs(args, <<>>, lex, e, fuel - 1), LAMBDA r1 :
                    IF r1.err # NoErr THEN r1
                    ELSE Let(RefApply(name, r1.value, r1.env, fuel - 1), LAMBDA r2 :
                         RR(r2.err, r2.value, r2.env, r1.lex)))

(***************************************************************************)
(* Routine.  A routine r holds stack, call_frames and frame; r.init is     *)
(* init_stack_size of run, r.dbg tells a build with debug assertions and   *)
(* overflow checks from a release build, r.status is "run" while the loop  *)
(* of run goes on, "done" when it returned Ok(r.value), "err" when it      *)
(* returned Err(r.err), "panic" when the thread panicked and "ub" when it  *)
(* left defined behaviour.                                                 *)
(***************************************************************************)
NewRoutine(stack, func, init, dbg) ==
    [stack |-> stack, call_frames |-> <<>>, frame |-> CallFrame(func, 0),
     init |-> init, dbg |-> dbg, status |-> "run", value |-> Nil, err |-> NoErr]

\* Routine::varref
\* varref that reads nil from a symbol without a value
varref_nil(r, idx, e) ==
    IF idx >= Len(r.frame.code.constants) THEN PanicR(r, "constant had invalid index")
    ELSE LET symbol == get_const(r.frame, idx)
         IN  IF ~IsSym(symbol) THEN PanicR(r, "Varref was not a symbol")
             ELSE IF e.vars[SymName(symbol)] = Unbound
             THEN [r EXCEPT !.stack = Append(@, Nil)]
             ELSE [r EXCEPT !.stack = Append(@, e.vars[SymName(symbol)])]

varref(r, idx, e) ==
    IF idx >= Len(r.frame.code.constants) THEN PanicR(r, "constant had invalid index")
    ELSE LET symbol == get_const(r.frame, idx)
         IN  IF ~IsSym(symbol) THEN PanicR(r, "Varref was not a symbol")
             ELSE IF e.vars[SymName(symbol)] = Unbound
             THEN ErrR(r, <<"VoidVariable", SymName(symbol)>>)
             ELSE [r EXCEPT !.stack = Append(@, e.vars[SymName(symbol)])]

\* Routine::varset: <<routine, environment>>
varset(r, idx, e) ==
    IF idx >= Len(r.frame.code.constants)
    THEN <<PanicR(r, "constant had invalid index"), e>>
    ELSE LET obj == get_const(r.frame, idx)
         IN  IF ~IsSym(obj) THEN <<ErrR(r, TypeError("symbol", obj)), e>>
             ELSE IF Len(r.stack) = 0 THEN <<PanicR(r, "unwrap on empty stack"), e>>
             ELSE <<[r EXCEPT !.stack = Pop(@)],
                    [e EXCEPT !.vars[SymName(obj)] = Top(r.stack)]>>

\* prepare_lisp_args with the &rest list built last argument first
prepare_lisp_args_reversed(r, func, arg_cnt) ==
    LET fill == num_of_fill_args(func.args, arg_cnt)
        filled == fill_extra_args(r.stack, fill[2])
        total_args == arg_cnt + fill[2]
        rest_size == total_args - rest_args_start(func.args)
        slice == take_slice(filled, rest_size, r.dbg)
        i == Len(filled) - rest_size
        list == IF Len(slice[2]) > 1
                THEN Cons(slice[2][Len(slice[2])],
                          L(SubSeq(slice[2], 1, Len(slice[2]) - 1)))
                ELSE L(slice[2])
    IN  IF fill[1] # NoErr THEN <<ErrR(r, fill[1]), 0>>
        ELSE IF rest_size > 0
        THEN <<[r EXCEPT !.stack = Append(SubSeq(filled, 1, i), list)],
               total_args - rest_size + 1>>
        ELSE IF func.args.rest
        THEN <<[r EXCEPT !.stack = Append(filled, Nil)], total_args + 1>>
        ELSE <<[r EXCEPT !.stack = filled], total_args>>

\* Routine::prepare_lisp_args: <<routine, total_args>>
prepare_lisp_args(r, func, arg_cnt) ==
    LET fill == num_of_fill_args(func.args, arg_cnt)
        filled == fill_extra_args(r.stack, fill[2])
        total_args == arg_cnt + fill[2]
        rest_size == total_args - rest_args_start(func.args)
        slice == take_slice(filled, rest_size, r.dbg)
        list == slice_into_list(slice[2], Nil)
        i == Len(filled) - rest_size
    IN  IF fill[1] # NoErr THEN <<ErrR(r, fill[1]), 0>>
        ELSE IF rest_size > 0
        THEN IF ~slice[1] THEN <<PanicR([r EXCEPT !.stack = filled], "take_slice"), 0>>
             ELSE <<[r EXCEPT !.stack = Append(SubSeq(filled, 1, i), list)],
                    total_args - rest_size + 1>>
        ELSE IF func.args.rest
        THEN <<[r EXCEPT !.stack = Append(filled, Nil)], total_args + 1>>
        ELSE <<[r EXCEPT !.stack = filled], total_args>>

\* Routine::call_lisp
call_lisp(r, func, arg_cnt) ==
    Let(prepare_lisp_args(r, func, arg_cnt), LAMBDA prep :
    IF prep[1].status # "run" THEN prep[1]
    ELSE IF prep[2] >= Len(prep[1].stack) /\ prep[1].dbg THEN PanicR(prep[1], "from_end")
    ELSE [prep[1] EXCEPT !.call_frames = Append(@, r.frame),
                         !.frame = CallFrame(func.body, from_end(prep[1].stack, prep[2]))])

\* call_subr with the nils pushed before the argument count is checked
call_subr_fillfirst(r, name, arg_cnt, e) ==
    LET fill == num_of_fill_args(SubrArgs(name), arg_cnt)
        missing == rest_args_start(SubrArgs(name)) - arg_cnt
        filled == fill_extra_args(r.stack, fill[2])
        total_args == arg_cnt + fill[2]
        slice == take_slice(filled, total_args, r.dbg)
        r1 == [r EXCEPT !.stack = filled]
    IN  IF fill[1] # NoErr
        THEN <<ErrR([r EXCEPT !.stack = fill_extra_args(@, missing)], fill[1]), e>>
        ELSE IF total_args >= Len(filled) THEN <<PanicR(r1, "from_end"), e>>
        ELSE IF ~slice[1] THEN <<PanicR(r1, "take_slice"), e>>
        ELSE Let(ApplySubr(name, slice[2], e), LAMBDA result :
             IF result.err # NoErr THEN <<ErrR(r1, result.err), result.env>>
             ELSE <<[r1 EXCEPT !.stack =
                          Append(SubSeq(filled, 1, from_end(filled, total_args)),
                                 result.value)],
                    result.env>>)

\* Routine::call_subr: <<routine, environment>>
call_subr(r, name, arg_cnt, e) ==
    LET fill == num_of_fill_args(SubrArgs(name), arg_cnt)
        filled == fill_extra_args(r.stack, fill[2])
        total_args == arg_cnt + fill[2]
        slice == take_slice(filled, total_args, r.dbg)
        r1 == [r EXCEPT !.stack = filled]
    IN  IF fill[1] # NoErr THEN <<ErrR(r, fill[1]), e>>
        ELSE IF total_args >= Len(filled) THEN <<PanicR(r1, "from_end"), e>>
        ELSE IF ~slice[1] THEN <<PanicR(r1, "take_slice"), e>>
        ELSE Let(ApplySubr(name, slice[2], e), LAMBDA result :
             IF result.err # NoErr THEN <<ErrR(r1, result.err), result.env>>
             ELSE <<[r1 EXCEPT !.stack =
                          Append(SubSeq(filled, 1, from_end(filled, total_args)),
                                 result.value)],
                    result.env>>)

\* Routine::call: <<routine, environment>>
call(r, arg_cnt, e) ==
    IF arg_cnt >= Len(r.stack) THEN <<PanicR(r, "from_end"), e>>
    ELSE IF ~IsSym(ref_at(r.stack, arg_cnt))
    THEN <<PanicR(r, "Expected symbol for call"), e>>
    ELSE Let(resolve_callable(e, SymName(ref_at(r.stack, arg_cnt))), LAMBDA callee :
         LET sym == SymName(ref_at(r.stack, arg_cnt))
             slice == take_slice(r.stack, arg_cnt, r.dbg)
         IN  CASE callee[1] = "LispFn" -> <<call_lisp(r, callee[2][2], arg_cnt), e>>
               [] callee[1] = "SubrFn" -> call_subr(r, callee[2][2], arg_cnt, e)
               [] callee[1] = "Macro" ->
                    <<ErrR(r, <<"Attempt to call macro at runtime", sym>>), e>>
               [] callee[1] = "Cons" ->
                    IF ~slice[1] THEN <<PanicR(r, "take_slice"), e>>
                    ELSE Let(interpreter_call(callee[2], Tag(callee[2]), slice[2],
                                              e, MaxEval), LAMBDA value :
                         IF value.err # NoErr THEN <<ErrR(r, value.err), value.env>>
                         ELSE <<[r EXCEPT !.stack = Append(@, value.value)], value.env>>)
               [] callee[1] = "None" -> <<ErrR(r, <<"VoidFunction", sym>>), e>>)

(***************************************************************************)
(* Routine::run, one iteration of its loop.                                *)
(***************************************************************************)
\* the opcode family of a parameterized opcode
Family(op) == (op \div 8) * 8

\* the number of operand bytes that follow the opcode: the forms N (6) and
\* N2 (7) of a family take one and two, the forms 0..5 hold the operand
OperandLen(op) ==
    IF op < OpCode.Discard
    THEN IF op % 8 = 6 THEN 1 ELSE IF op % 8 = 7 THEN 2 ELSE 0
    ELSE IF op \in {OpCode.DiscardN, OpCode.DiscardNKeepTOS} THEN 1
    ELSE IF op \in JumpOps THEN 2
    ELSE 0

\* the operand of the opcode at f.ip: inlined, next() or next2()
Operand(f, op) ==
    IF op < OpCode.Discard /\ op % 8 <= 5 THEN op % 8
    ELSE IF OperandLen(op) = 1 THEN ByteAt(f, 1)
    ELSE IF OperandLen(op) = 2 THEN next2(ByteAt(f, 1), ByteAt(f, 2))
    ELSE 0

\* Ip::jump
\* Ip::jump that leaves the instruction pointer where it is
Ip_jump_stays(r, offset) == r

Ip_jump(r, offset) ==
    IF r.dbg /\ ~(0 <= r.frame.ip + offset
                  /\ r.frame.ip + offset < Len(r.frame.code.op_codes))
    THEN PanicR(r, "jump out of range")
    ELSE [r EXCEPT !.frame.ip = @ + offset]

\* one iteration of the loop of Routine::run: <<routine, environment>>
RunStep(r, e) ==
    LET \* the instruction pointer is outside the code: the debug_assert of
        \* Ip stops a debug build, a release build reads whatever memory is
        \* there
        wild == IF r.dbg THEN PanicR(r, "ip out of range")
                ELSE [r EXCEPT !.status = "ub"]
        op == ByteAt(r.frame, 0)
        arg == Operand(r.frame, op)
        \* the Ret arm; r1 has consumed the opcode and its operand bytes
        ret(r1) ==
            IF Len(r1.stack) = 0 THEN PanicR(r1, "unwrap on empty stack")
            ELSE IF Len(r1.call_frames) = 0
            THEN IF r1.dbg /\ Len(r1.stack) # r1.init + 1
                 THEN PanicR(r1, "debug_assert_eq")
                 ELSE [r1 EXCEPT !.status = "done", !.value = Top(r1.stack),
                                 !.stack = Pop(@)]
            ELSE IF r1.frame.start < 0 \/ r1.frame.start >= Len(r1.stack) - 1
            THEN PanicR(r1, "index out of bounds")
            ELSE [r1 EXCEPT !.stack = Append(SubSeq(@, 1, r1.frame.start), Top(r1.stack)),
                            !.frame = r1.call_frames[Len(r1.call_frames)],
                            !.call_frames = Pop(@)]
        \* the DiscardN arm (keep = FALSE) and the DiscardNKeepTOS arm
        discard_n(r1, keep) ==
            IF keep /\ Len(r1.stack) = 0
            THEN PanicR(r1, "stack was empty when discard called")
            ELSE LET rest == IF keep THEN Pop(r1.stack) ELSE r1.stack
                     cut == IF arg > Len(rest) THEN rest
                            ELSE SubSeq(rest, 1, Len(rest) - arg)
                 IN  IF arg > Len(rest) /\ r1.dbg
                     THEN PanicR(r1, "attempt to subtract with overflow")
                     ELSE [r1 EXCEPT !.stack =
                              IF keep THEN Append(cut, Top(r1.stack)) ELSE cut]
        \* the arms of the five jump opcodes
        jump_arm(r1, offset) ==
            IF op = OpCode.Jump THEN Ip_jump(r1, offset)
            ELSE IF Len(r1.stack) = 0 THEN PanicR(r1, "unwrap on empty stack")
            ELSE LET cond == Top(r1.stack)
                     popped == [r1 EXCEPT !.stack = Pop(@)]
                 IN  CASE op = OpCode.JumpNil ->
                            IF cond = Nil THEN Ip_jump(popped, offset) ELSE popped
                       [] op = OpCode.JumpNotNil ->
                            IF cond # Nil THEN Ip_jump(popped, offset) ELSE popped
                       [] op = OpCode.JumpNilElsePop ->
                            IF cond = Nil THEN Ip_jump(r1, offset) ELSE popped
                       [] op = OpCode.JumpNotNilElsePop ->
                            IF cond = Nil THEN popped ELSE Ip_jump(r1, offset)
        \* the match on the opcode
        arm(r1) ==
            CASE Family(op) = OpCode.StackRef0 -> <<push_ref(r1, arg), e>>
              [] Family(op) = OpCode.StackSet0 -> <<set_ref(r1, arg), e>>
              [] Family(op) = OpCode.Constant0 ->
                   IF arg < Len(r1.frame.code.constants)
                   THEN <<[r1 EXCEPT !.stack = Append(@, get_const(r1.frame, arg))], e>>
                   ELSE <<PanicR(r1, "constant had invalid index"), e>>
              [] Family(op) = OpCode.VarRef0 -> <<varref(r1, arg, e), e>>
              [] Family(op) = OpCode.VarSet0 -> varset(r1, arg, e)
              [] Family(op) = OpCode.Call0 -> call(r1, arg, e)
              [] op = OpCode.Discard -> <<[r1 EXCEPT !.stack = Pop(@)], e>>
              [] op = OpCode.DiscardN -> <<discard_n(r1, FALSE), e>>
              [] op = OpCode.DiscardNKeepTOS -> <<discard_n(r1, TRUE), e>>
              [] op = OpCode.Duplicate ->
                   IF Len(r1.stack) = 0 THEN <<PanicR(r1, "unwrap on empty stack"), e>>
                   ELSE <<[r1 EXCEPT !.stack = Append(@, Top(@))], e>>
              [] op \in JumpOps -> <<jump_arm(r1, AsI16(arg)), e>>
              [] op = OpCode.Ret -> <<ret(r1), e>>
    IN  IF ~InRange(r.frame, 1) THEN <<wild, e>>
        ELSE IF op > OpCode.Ret THEN <<ErrR(r, <<"unknown opcode", op>>), e>>
        ELSE IF ~InRange(r.frame, 1 + OperandLen(op)) THEN <<wild, e>>
        ELSE arm([r EXCEPT !.frame.ip = @ + 1 + OperandLen(op)])

RECURSIVE RunToEnd(_, _, _)
\* Routine::run to its return, or until the model's step bound
RunToEnd(r, e, fuel) ==
    IF r.status # "run" THEN <<r, e>>
    ELSE IF fuel = 0 THEN <<[r EXCEPT !.status = "timeout"], e>>
    ELSE Let(RunStep(r, e), LAMBDA n : RunToEnd(n[1], n[2], fuel - 1))

\* Routine::execute before it enters run
\* execute that starts on a stack with one slot left over
execute_dirty(exp, dbg) == NewRoutine(<<Nil>>, exp, 0, dbg)

execute(exp, dbg) == NewRoutine(<<>>, exp, 0, dbg)

\* eval::call_lisp: <<routine at its return, environment>>
eval_call_lisp(func, args, e, dbg) ==
    Let(prepare_lisp_args(NewRoutine(args, func.body, 0, dbg), func, Len(args)),
        LAMBDA prep :
        IF prep[1].status # "run" THEN <<prep[1], e>>
        ELSE RunToEnd([prep[1] EXCEPT !.init = Len(prep[1].stack)], e, MaxSteps))

\* eval::call_subr: <<routine at its return, environment>>
eval_call_subr(name, args, e, dbg) ==
    LET rout == NewRoutine(args, Expression(<<>>, <<>>, <<>>), 0, dbg)
        fill == num_of_fill_args(SubrArgs(name), Len(args))
    IN  IF fill[1] # NoErr THEN <<ErrR(rout, fill[1]), e>>
        ELSE Let(ApplySubr(name, fill_extra_args(args, fill[2]), e), LAMBDA result :
             IF result.err # NoErr THEN <<ErrR(rout, result.err), result.env>>
             ELSE <<[rout EXCEPT !.status = "done", !.value = result.value],
                    result.env>>)

(***************************************************************************)
(* Compiler: iteration over the forms of a list.                           *)
(***************************************************************************)
\* into_iter accepts a cons or nil
IsListObj(o) == IsCons(o) \/ o = Nil

\* an Err item: what an iterator yields at a cell whose cdr is neither
\* cons nor nil
IsIterErr(o) == Tag(o) = "iter-err"

RECURSIVE Items(_)
\* the items ConsIter yields for a list: the cars, and for a dotted list an
\* Err in place of the car of its last cell
Items(o) ==
    IF ~IsCons(o) THEN <<>>
    ELSE IF IsListObj(ConsCdr(o)) THEN <<ConsCar(o)>> \o Items(ConsCdr(o))
    ELSE <<<<"iter-err", ConsCdr(o)>>>>

\* the error of item? on an Err item
ItemError(item) == <<"Found non-nil cdr at end of list">>

\* Iterator::count on the rest of a list: next does not move past the cell
\* with the non-nil cdr, so it yields the Err again on every call and count
\* never returns, which -1 stands for
count(items) ==
    IF Len(items) > 0 /\ IsIterErr(items[Len(items)]) THEN -1 ELSE Len(items)

(***************************************************************************)
(* parse_fn_binding and LispFn::default.                                   *)
(***************************************************************************)
\* the while loop of parse_fn_binding over the items the iterator yields.
\* The loop ends at the first item that is an Err or no symbol, and at the
\* first &rest, which takes the rest of the items itself; every symbol
\* before that place is &optional or a name.  required and optional are
\* u16 counters: the 65536th name of a kind overflows *arg_type += 1
parse_items(items, dbg) ==
    LET n == Len(items)
        bad(i) == IsIterErr(items[i]) \/ ~IsSym(items[i])
        amp(i, s) == ~bad(i) /\ SymName(items[i]) = s
        least(S) == CHOOSE i \in S : \A j \in S : i <= j
        error(i) == IF IsIterErr(items[i]) THEN ItemError(items[i])
                    ELSE TypeError("symbol", items[i])
    IN  Let({i \in 1..n : bad(i) \/ amp(i, "&rest")}, LAMBDA stops :
        Let(IF stops = {} THEN n + 1 ELSE least(stops), LAMBDA stop :
        Let({i \in 1..(stop - 1) : amp(i, "&optional")}, LAMBDA opts :
        Let(SelectSeq(SubSeq(items, 1, stop - 1), LAMBDA t : SymName(t) # "&optional"),
            LAMBDA names :
            LET required == IF opts = {} THEN stop - 1 ELSE least(opts) - 1
                optional == Len(names) - required
                counted == [err |-> NoErr, required |-> AsU16(required),
                            optional |-> AsU16(optional), rest |-> FALSE,
                            args |-> <<>> \o [i \in 1..Len(names) |-> SymName(names[i])]]
            IN  IF dbg /\ (required > U16Max \/ optional > U16Max)
                THEN [counted EXCEPT !.err = <<"panic", "attempt to add with overflow">>]
                ELSE IF stop > n THEN counted
                ELSE IF bad(stop) THEN [counted EXCEPT !.err = error(stop)]
                ELSE IF stop = n THEN counted
                ELSE IF bad(stop + 1) THEN [counted EXCEPT !.err = error(stop + 1)]
                ELSE IF stop + 1 < n
                THEN [counted EXCEPT !.rest = TRUE,
                                     !.args = Append(@, SymName(items[stop + 1])),
                                     !.err = <<"Found multiple arguments after &rest">>]
                ELSE [counted EXCEPT !.rest = TRUE,
                                     !.args = Append(@, SymName(items[stop + 1]))]))))

\* parse_fn_binding: the counts, the rest flag and the argument names
parse_fn_binding(bindings, dbg) ==
    IF ~IsListObj(bindings)
    THEN [err |-> TypeError("list", bindings), required |-> 0, optional |-> 0,
          rest |-> FALSE, args |-> <<>>]
    ELSE parse_items(Items(bindings), dbg)

\* LispFn::default(): the stub that returns nil
DefaultLispFn ==
    LispFnNew(<<OpCode.Constant0, OpCode.Ret>>, <<Nil>>, <<0, 1>>, 0, 0, FALSE)

(***************************************************************************)
(* Compiler: the forms.                                                    *)
(***************************************************************************)
RECURSIVE compile_form(_, _)
RECURSIVE setq_loop(_, _, _)
RECURSIVE compile_lambda(_, _)

implicit_progn(c, forms) ==
    LET \* the compiler after the first i forms: the for loop discards the
        \* value of a form before it compiles the next
        after[i \in 1..Len(forms)] ==
            IF i = 1 THEN compile_form(c, forms[1])
            ELSE compile_form(discard(after[i - 1]), forms[i])
    IN  IF Failed(c) THEN c
        ELSE IF Len(forms) = 0 THEN const_ref(c, Nil, NoneSym)
        ELSE after[Len(forms)]

progn(c, forms) ==
    IF ~IsListObj(forms) THEN Fail(c, TypeError("list", forms))
    ELSE implicit_progn(c, Items(forms))

quote(c, value) ==
    IF ~IsListObj(value) THEN Fail(c, TypeError("list", value))
    ELSE LET forms == Items(value)
         IN  IF count(forms) = -1 THEN Fail(c, <<"never returns">>)
             ELSE IF Len(forms) # 1 THEN Fail(c, ArgCount(1, AsU16(Len(forms))))
             ELSE const_ref(c, forms[1], NoneSym)

\* let_bind_call: <<compiler, name of the bound symbol>>
let_bind_call(c, cons) ==
    IF ~IsListObj(ConsCdr(cons)) THEN <<Fail(c, TypeError("list", ConsCdr(cons))), NoneSym>>
    ELSE LET iter == Items(ConsCdr(cons))
         IN  Let(IF Len(iter) = 0 THEN const_ref(c, Nil, NoneSym)
                 ELSE compile_form(c, iter[1]), LAMBDA c1 :
             IF Failed(c1) THEN <<c1, NoneSym>>
             ELSE IF Len(iter) > 1 /\ count(Tail(iter)) = -1
             THEN <<Fail(c1, <<"never returns">>), NoneSym>>
             ELSE IF Len(iter) > 1
             THEN <<Fail(c1, <<"LetValueCount", Len(iter)>>), NoneSym>>
             ELSE IF ~IsSym(ConsCar(cons))
             THEN <<Fail(c1, TypeError("symbol", ConsCar(cons))), NoneSym>>
             ELSE <<c1, SymName(ConsCar(cons))>>)

\* the for loop of let_bind over the items of the binding list and the
\* reordering that follows it: <<compiler, len>>
let_bind_items(c, bindings, parallel) ==
    LET \* one turn of the for loop on <<compiler, let_bindings>>; a symbol
        \* is bound by let_bind_nil, a cons by let_bind_call
        turn(prev, binding) ==
            IF Failed(prev[1]) THEN prev
            ELSE IF IsIterErr(binding)
            THEN <<Fail(prev[1], ItemError(binding)), prev[2]>>
            ELSE IF IsCons(binding)
            THEN Let(let_bind_call(prev[1], binding), LAMBDA made :
                 IF Failed(made[1]) THEN <<made[1], prev[2]>>
                 ELSE IF parallel THEN <<made[1], Append(prev[2], made[2])>>
                 ELSE <<[made[1] EXCEPT !.vars[Len(made[1].vars)] = made[2]],
                        prev[2]>>)
            ELSE IF IsSym(binding)
            THEN <<const_ref(prev[1], Nil, SymName(binding)), prev[2]>>
            ELSE <<Fail(prev[1], TypeError("cons", binding)), prev[2]>>
        \* the turns for bindings lo..hi, the first half before the second
        RECURSIVE turns(_, _, _)
        turns(prev, lo, hi) ==
            IF Failed(prev[1]) \/ lo > hi THEN prev
            ELSE IF lo = hi THEN Let(prev, LAMBDA p : turn(p, bindings[lo]))
            ELSE Let(turns(prev, lo, (lo + hi) \div 2), LAMBDA half :
                 turns(half, (lo + hi) \div 2 + 1, hi))
    IN  Let(turns(<<c, <<>>>>, 1, Len(bindings)), LAMBDA done :
        IF Failed(done[1]) THEN <<done[1], 0>>
        ELSE IF parallel
        THEN <<[done[1] EXCEPT !.vars =
                    SubSeq(@, 1, Len(@) - Len(done[2])) \o done[2]],
               Len(bindings)>>
        ELSE <<done[1], Len(bindings)>>)

\* let_bind: <<compiler, the number of binding forms>>
let_bind(c, obj, parallel) ==
    IF ~IsListObj(obj) THEN <<Fail(c, TypeError("list", obj)), 0>>
    ELSE let_bind_items(c, Items(obj), parallel)

\* compile_let after let_bind: the body, and the removal of the bindings.
\* bound is what let_bind returned
let_body(bound, body) ==
    Let(implicit_progn(bound[1], body), LAMBDA c1 :
    IF Failed(c1) THEN c1
    ELSE IF bound[2] > 0
    THEN [push_op_n(c1, OpCode.DiscardNKeepTOS, bound[2], Len(c1.vars))
              EXCEPT !.vars =
                  Append(Truncate(Pop(@),
                                  IF Len(@) - 1 - bound[2] < 0 THEN 0
                                  ELSE Len(@) - 1 - bound[2]),
                         c1.vars[Len(c1.vars)])]
    ELSE c1)

compile_let(c, form, parallel) ==
    IF ~IsListObj(form) THEN Fail(c, TypeError("list", form))
    ELSE LET iter == Items(form)
         IN  IF Len(iter) = 0 THEN Fail(c, ArgCount(1, 0))
             ELSE IF IsIterErr(iter[1]) THEN Fail(c, ItemError(iter[1]))
             ELSE let_body(let_bind(c, iter[1], parallel), Tail(iter))

\* the while loop of setq over the variable/value pairs
setq_loop(c, forms, args_processed) ==
    IF Failed(c) \/ Len(forms) = 0 THEN c
    ELSE IF Len(forms) = 1
    THEN Fail(c, ArgCount(AsU16(args_processed + 2), AsU16(args_processed + 1)))
    ELSE Let(compile_form(c, forms[2]), LAMBDA c1 :
         IF Failed(c1) THEN c1
         ELSE Let(IF Len(forms) = 2 THEN duplicate(c1) ELSE c1, LAMBDA c2 :
              LET var == forms[1]
                  idx == RPosition(c2.vars, SymName(var))
                  ins == insert_or_get(c2.constants, var)
              IN  IF IsIterErr(var) THEN Fail(c2, ItemError(var))
                  ELSE IF ~IsSym(var) THEN Fail(c2, TypeError("symbol", var))
                  ELSE setq_loop(
                           IF idx >= 0 THEN stack_set(c2, idx)
                           ELSE IF ins[2] > U16Max
                           THEN Fail([c2 EXCEPT !.constants = ins[1]], <<"ConstOverflow">>)
                           ELSE var_set([c2 EXCEPT !.constants = ins[1]], ins[2]),
                           SubSeq(forms, 3, Len(forms)), args_processed + 2)))

setq(c, obj) ==
    IF ~IsListObj(obj) THEN Fail(c, TypeError("list", obj))
    ELSE IF Len(Items(obj)) = 0 THEN Fail(c, ArgCount(2, 0))
    ELSE setq_loop(c, Items(obj), 0)

variable_reference(c, sym) ==
    IF Failed(c) THEN c
    ELSE LET idx == RPosition(c.vars, sym)
             ins == insert_or_get(c.constants, Sym(sym))
             c1 == [c EXCEPT !.constants = ins[1]]
         IN  IF idx >= 0 THEN stack_ref(c, idx, sym)
             ELSE IF ins[2] > U16Max THEN Fail(c1, <<"ConstOverflow">>)
             ELSE [emit_op(c1, OpCode.VarRef0, ins[2], Len(c.vars))
                       EXCEPT !.vars = Append(@, NoneSym)]

\* compile_macro_call: <<compiler, the form the expander returned>>
compile_macro_call(c, name, args, body) ==
    LET \* ghost: one entry of c.log, written when an expander is about to
        \* be called
        Dispatched(cc, kind) ==
            [cc EXCEPT !.log = Append(@,
                [name |-> name, kind |-> kind,
                 guarded |-> \E i \in 1..Len(cc.env.macro_callstack) :
                                 cc.env.macro_callstack[i] = name])]
        \* the result of a run of the interpreter inside the compiler, as
        \* the Result the compiler sees
        RunError(r) ==
            CASE r.status = "done" -> NoErr
              [] r.status = "err" -> r.err
              [] r.status = "panic" -> r.err
              [] r.status = "timeout" -> <<"diverges">>
              [] r.status = "ub" -> <<"ub">>
        \* the compiler after a run of the expander
        AfterExpander(cc, run) ==
            <<[cc EXCEPT !.env = run[2], !.err = RunError(run[1])], run[1].value>>
        arg_list == Items(args)
        pushed == [c EXCEPT !.env.macro_callstack = Append(@, name)]
    IN  IF ~IsListObj(args) THEN <<Fail(c, TypeError("list", args)), Nil>>
        ELSE IF \E i \in 1..Len(arg_list) : IsIterErr(arg_list[i])
        THEN <<Fail(c, ItemError(
                  arg_list[CHOOSE i \in 1..Len(arg_list) : IsIterErr(arg_list[i])])),
               Nil>>
        ELSE CASE Tag(body) = "fn" ->
                    AfterExpander(Dispatched(c, "fn"),
                                  eval_call_lisp(body[2], arg_list, c.env, c.dbg))
               [] Tag(body) = "subr" ->
                    AfterExpander(Dispatched(c, "subr"),
                                  eval_call_subr(body[2], arg_list, c.env, c.dbg))
               [] Tag(body) = "cons" ->
                    IF \E i \in 1..Len(c.env.macro_callstack) :
                           c.env.macro_callstack[i] = name
                    THEN <<Fail(c, <<"RecursiveMacro">>), Nil>>
                    ELSE IF ~IsSym(ConsCar(body))
                    THEN <<Fail(pushed, TypeError("symbol", ConsCar(body))), Nil>>
                    ELSE IF SymName(ConsCar(body)) # "lambda"
                    THEN <<Fail(pushed, <<"Invalid Function", SymName(ConsCar(body))>>),
                           Nil>>
                    ELSE Let(compile_lambda(pushed, ConsCdr(body)), LAMBDA lambda :
                         IF Failed(lambda[1]) THEN <<lambda[1], Nil>>
                         ELSE Let([lambda[1] EXCEPT
                                      !.env.macro_callstack = Pop(@),
                                      !.env.funcs[name] =
                                          Cons(Sym("macro"), <<"fn", lambda[2]>>)],
                                  LAMBDA defined :
                              AfterExpander(
                                  Dispatched(defined, "cons"),
                                  eval_call_lisp(lambda[2], arg_list, defined.env,
                                                 c.dbg))))
               [] OTHER -> <<Fail(c, <<"Invalid macro type", Tag(body)>>), Nil>>

\* compile_funcall without the expansion of macros: every head symbol is
\* compiled as a function call
compile_funcall_nomacro(c, name, args) ==
    IF Failed(c) THEN c
    ELSE Let(const_ref(c, Sym(name), NoneSym), LAMBDA c1 :
         LET items == Items(args)
             \* the for loop: the compiler after the first i arguments
             compiled[i \in 0..Len(items)] ==
                 IF i = 0 THEN c1 ELSE compile_form(compiled[i - 1], items[i])
         IN  IF Failed(c1) THEN c1
             ELSE IF ~IsListObj(args) THEN Fail(c1, TypeError("list", args))
             ELSE Let(compiled[Len(items)], LAMBDA c2 :
                  IF Failed(c2) THEN c2
                  ELSE [emit_op(c2, OpCode.Call0, AsU16(Len(items)), Len(c2.vars))
                            EXCEPT !.vars = Truncate(@, Len(c1.vars))]))

compile_funcall(c, name, args) ==
    IF Failed(c) THEN c
    ELSE IF IsCons(symbol_function(c.env, name))
    THEN IF IsMacroCell(symbol_function(c.env, name))
         THEN Let(compile_macro_call(c, name, args,
                                     ConsCdr(symbol_function(c.env, name))),
                  LAMBDA expanded :
              IF Failed(expanded[1]) THEN expanded[1]
              ELSE IF c.budget = 0
              THEN \* the host stack is exhausted by unbounded recursion
                   Fail(expanded[1], <<"host stack exhausted">>)
              ELSE [compile_form([expanded[1] EXCEPT !.budget = @ - 1], expanded[2])
                        EXCEPT !.budget = c.budget])
         ELSE c
    ELSE Let(const_ref(c, Sym(name), NoneSym), LAMBDA c1 :
         LET items == Items(args)
             \* the for loop: the compiler after the first i arguments
             compiled[i \in 0..Len(items)] ==
                 IF i = 0 THEN c1 ELSE compile_form(compiled[i - 1], items[i])
         IN  IF Failed(c1) THEN c1
             ELSE IF ~IsListObj(args) THEN Fail(c1, TypeError("list", args))
             ELSE Let(compiled[Len(items)], LAMBDA c2 :
                  IF Failed(c2) THEN c2
                  ELSE [emit_op(c2, OpCode.Call0, AsU16(Len(items)), Len(c2.vars))
                            EXCEPT !.vars = Truncate(@, Len(c1.vars))]))

compile_if(c, obj) ==
    IF ~IsListObj(obj) THEN Fail(c, TypeError("list", obj))
    ELSE LET forms == Items(obj)
             len == Len(forms)
         IN  IF count(forms) = -1 THEN Fail(c, <<"never returns">>)
             ELSE IF len < 2 THEN Fail(c, ArgCount(2, AsU16(len)))
             ELSE Let(compile_form(c, forms[1]), LAMBDA test :
                  IF Failed(test) THEN test
                  ELSE IF len = 2
                  THEN \* (if x y)
                       Let(jump(test, OpCode.JumpNilElsePop, Len(test.vars)), LAMBDA target :
                       set_jump_target(compile_form(target[1], forms[2]), target[2]))
                  ELSE \* (if x y z ...)
                       Let(jump(test, OpCode.JumpNil, Len(test.vars)), LAMBDA else_nil_target :
                       Let(compile_form(else_nil_target[1], forms[2]), LAMBDA then3 :
                       IF Failed(then3) THEN then3
                       ELSE Let(jump(then3, OpCode.Jump, Len(then3.vars)), LAMBDA jump_to_end_target :
                            set_jump_target(
                                implicit_progn(
                                    set_jump_target(jump_to_end_target[1],
                                                    else_nil_target[2]),
                                    SubSeq(forms, 3, len)),
                                jump_to_end_target[2])))))

compile_loop(c, obj) ==
    IF ~IsListObj(obj) THEN Fail(c, TypeError("list", obj))
    ELSE IF Len(Items(obj)) = 0 THEN Fail(c, ArgCount(1, 0))
    ELSE Let(compile_form(c, Items(obj)[1]), LAMBDA test :
         IF Failed(test) THEN test
         ELSE Let(jump(test, OpCode.JumpNilElsePop, Len(test.vars)), LAMBDA loop_exit :
              set_jump_target(
                  jump_back(discard(implicit_progn(loop_exit[1], Tail(Items(obj)))),
                            OpCode.Jump, Len(c.codes)),
                  loop_exit[2])))

compile_lambda_def(c, obj) ==
    Let(compile_lambda(c, obj), LAMBDA lambda :
        IF Failed(lambda[1]) THEN lambda[1]
        ELSE add_const_lambda(lambda[1], lambda[2]))

compile_defvar(c, obj) ==
    IF ~IsListObj(obj) THEN Fail(c, TypeError("list", obj))
    ELSE LET iter == Items(obj)
         IN  IF Len(iter) = 0 THEN Fail(c, ArgCount(1, 0))
             ELSE IF IsIterErr(iter[1]) THEN Fail(c, ItemError(iter[1]))
             ELSE IF ~IsSym(iter[1]) THEN Fail(c, TypeError("symbol", iter[1]))
             ELSE Let(IF Len(iter) > 1 THEN compile_form(c, iter[2])
                      ELSE const_ref(c, Nil, NoneSym), LAMBDA c1 :
                  IF Failed(c1) THEN c1
                  ELSE Let(duplicate(c1), LAMBDA c2 :
                       LET ins == insert_or_get(c2.constants, iter[1])
                       IN  IF ins[2] > U16Max
                           THEN Fail([c2 EXCEPT !.constants = ins[1]], <<"ConstOverflow">>)
                           ELSE var_set([c2 EXCEPT !.constants = ins[1]], ins[2])))

\* compile_cond_clause: <<compiler, jump_targets>>
compile_cond_clause(c, clause, jump_targets) ==
    IF IsIterErr(clause) THEN <<Fail(c, ItemError(clause)), jump_targets>>
    ELSE IF ~IsListObj(clause) THEN <<Fail(c, TypeError("list", clause)), jump_targets>>
    ELSE IF count(Items(clause)) = -1 THEN <<Fail(c, <<"never returns">>), jump_targets>>
    ELSE IF Len(Items(clause)) = 0 THEN <<c, jump_targets>>
    ELSE Let(compile_form(c, Items(clause)[1]), LAMBDA test :
         IF Failed(test) THEN <<test, jump_targets>>
         ELSE IF Len(Items(clause)) = 1
         THEN \* (cond (x))
              Let(jump(test, OpCode.JumpNotNilElsePop, Len(test.vars)), LAMBDA target :
              <<target[1], Append(jump_targets, target[2])>>)
         ELSE \* (cond (x y ...))
              Let(jump(test, OpCode.JumpNil, Len(test.vars)), LAMBDA skip_target :
              Let(implicit_progn(skip_target[1], Tail(Items(clause))), LAMBDA body :
              IF Failed(body) THEN <<body, jump_targets>>
              ELSE \* self.vars.pop() and the Jump are one emit site: the ghost
                   \* depth of the Jump is the depth before the pop
                   Let(jump([body EXCEPT !.vars = Pop(@)], OpCode.Jump, Len(body.vars)),
                       LAMBDA taken_target :
                   <<set_jump_target(taken_target[1], skip_target[2]),
                     Append(jump_targets, taken_target[2])>>))))

\* compile_last_cond_clause: <<compiler, jump_targets>>
compile_last_cond_clause(c, clause, jump_targets) ==
    IF IsIterErr(clause) THEN <<Fail(c, ItemError(clause)), jump_targets>>
    ELSE IF ~IsListObj(clause) THEN <<Fail(c, TypeError("list", clause)), jump_targets>>
    ELSE IF count(Items(clause)) = -1 THEN <<Fail(c, <<"never returns">>), jump_targets>>
    ELSE IF Len(Items(clause)) = 0 THEN <<const_ref(c, Nil, NoneSym), jump_targets>>
    ELSE Let(compile_form(c, Items(clause)[1]), LAMBDA test :
         IF Failed(test) THEN <<test, jump_targets>>
         ELSE IF Len(Items(clause)) = 1
         THEN \* (cond (x))
              Let(jump(test, OpCode.JumpNotNilElsePop, Len(test.vars)), LAMBDA target :
              <<const_ref(target[1], Nil, NoneSym), Append(jump_targets, target[2])>>)
         ELSE \* (cond (x y ...))
              Let(jump(test, OpCode.JumpNilElsePop, Len(test.vars)), LAMBDA target :
              <<implicit_progn(target[1], Tail(Items(clause))),
                Append(jump_targets, target[2])>>))

compile_cond(c, obj) ==
    LET clauses == Items(obj)
        \* the while loop: <<compiler, final_return_targets>> after i clauses
        compiled[i \in 0..Len(clauses)] ==
            IF i = 0 THEN <<c, <<>>>>
            ELSE Let(compiled[i - 1], LAMBDA prev :
                 IF Failed(prev[1]) THEN prev
                 ELSE IF i = Len(clauses)
                 THEN compile_last_cond_clause(prev[1], clauses[i], prev[2])
                 ELSE compile_cond_clause(prev[1], clauses[i], prev[2]))
        \* the for loop over final_return_targets
        patched(cc, targets) ==
            LET set[i \in 0..Len(targets)] ==
                    IF i = 0 THEN cc
                    ELSE set_jump_placeholder(set[i - 1], targets[i][1])
            IN  set[Len(targets)]
    IN  IF ~IsListObj(obj) THEN Fail(c, TypeError("list", obj))
        ELSE IF Len(clauses) = 0 THEN const_ref(c, Nil, NoneSym)
        ELSE Let(compiled[Len(clauses)], LAMBDA done :
             IF Failed(done[1]) THEN done[1] ELSE patched(done[1], done[2]))

dispatch_special_form(c, cons) ==
    IF ~IsSym(ConsCar(cons)) THEN Fail(c, TypeError("symbol", ConsCar(cons)))
    ELSE LET name == SymName(ConsCar(cons))
             forms == ConsCdr(cons)
         IN  CASE name = "lambda" -> compile_lambda_def(c, forms)
               [] name = "while" -> compile_loop(c, forms)
               [] name \in {"quote", "function"} -> quote(c, forms)
               [] name = "progn" -> progn(c, forms)
               [] name = "setq" -> setq(c, forms)
               [] name = "defvar" -> compile_defvar(c, forms)
               [] name = "cond" -> compile_cond(c, forms)
               [] name \in {"let", "let*"} -> compile_let(c, forms, name = "let")
               [] name = "if" -> compile_if(c, forms)
               [] OTHER -> compile_funcall(c, name, forms)

compile_form(c, obj) ==
    IF Failed(c) THEN c
    ELSE IF IsIterErr(obj) THEN Fail(c, ItemError(obj))
    ELSE IF IsCons(obj) THEN dispatch_special_form(c, obj)
    ELSE IF IsSym(obj) THEN variable_reference(c, SymName(obj))
    ELSE const_ref(c, obj, NoneSym)

\* compile_func_body that starts from the virtual stack of the enclosing compiler
compile_func_body_nested(obj, vars, c) ==
    Let(implicit_progn(NewCompiler(c.vars \o vars, c.env, c.budget, c.log, c.dbg), obj),
        LAMBDA exp :
        IF Failed(exp) THEN exp
        ELSE [push(exp, OpCode.Ret, Len(exp.vars)) EXCEPT !.vars = <<>>])

\* Compiler::compile_func_body; env, budget, log and dbg come from c
compile_func_body(obj, vars, c) ==
    Let(implicit_progn(NewCompiler(vars, c.env, c.budget, c.log, c.dbg), obj),
        LAMBDA exp :
        IF Failed(exp) THEN exp
        ELSE [push(exp, OpCode.Ret, Len(exp.vars)) EXCEPT !.vars = <<>>])

\* compile_lambda: <<c with the environment the compilation left, LispFn>>
\* compile_lambda that compiles an empty body like any other
compile_lambda_nostub(c, obj) ==
    IF ~IsListObj(obj) THEN <<Fail(c, TypeError("list", obj)), DefaultLispFn>>
    ELSE IF Len(Items(obj)) = 0 THEN <<c, DefaultLispFn>>
    ELSE IF IsIterErr(Items(obj)[1])
    THEN <<Fail(c, ItemError(Items(obj)[1])), DefaultLispFn>>
    ELSE Let(parse_fn_binding(Items(obj)[1], c.dbg), LAMBDA parsed :
         IF parsed.err # NoErr THEN <<Fail(c, parsed.err), DefaultLispFn>>
         ELSE Let(compile_func_body(Tail(Items(obj)), parsed.args, c), LAMBDA exp :
              <<[c EXCEPT !.env = exp.env, !.log = exp.log, !.err = exp.err],
                IF Failed(exp) THEN DefaultLispFn
                ELSE LispFnNew(exp.codes, exp.constants, exp.depths,
                               parsed.required, parsed.optional, parsed.rest)>>))

compile_lambda(c, obj) ==
    IF ~IsListObj(obj) THEN <<Fail(c, TypeError("list", obj)), DefaultLispFn>>
    ELSE IF Len(Items(obj)) = 0 THEN <<c, DefaultLispFn>>
    ELSE IF IsIterErr(Items(obj)[1])
    THEN <<Fail(c, ItemError(Items(obj)[1])), DefaultLispFn>>
    ELSE Let(parse_fn_binding(Items(obj)[1], c.dbg), LAMBDA parsed :
         IF parsed.err # NoErr THEN <<Fail(c, parsed.err), DefaultLispFn>>
         ELSE IF Len(Items(obj)) = 1 THEN <<c, DefaultLispFn>>
         ELSE Let(compile_func_body(Tail(Items(obj)), parsed.args, c), LAMBDA exp :
              <<[c EXCEPT !.env = exp.env, !.log = exp.log, !.err = exp.err],
                IF Failed(exp) THEN DefaultLispFn
                ELSE LispFnNew(exp.codes, exp.constants, exp.depths,
                               parsed.required, parsed.optional, parsed.rest)>>))

\* compile: the compiler after compile_func_body on the one form
compile(obj, env, dbg) ==
    compile_func_body(<<obj>>, <<>>, NewCompiler(<<>>, env, MaxExpand, <<>>, dbg))

(***************************************************************************)
(* Programs: the texts the evaluator is given, each a sequence of          *)
(* top-level forms as the reader returns them.                             *)
(***************************************************************************)
Programs ==
    LET Quote(x) == L(<<Sym("quote"), x>>)
        Lambda(params, body) == L(<<Sym("lambda"), L(params)>> \o body)
        \* (defalias 'name def)
        Defalias(name, def) == L(<<Sym("defalias"), Quote(Sym(name)), def>>)
        \* (defalias 'name (cons 'macro def))
        Defmacro(name, def) ==
            Defalias(name, L(<<Sym("cons"), Quote(Sym("macro")), def>>))
        Let1(name, val, body) ==
            L(<<Sym("let"), L(<<L(<<Sym(name), val>>)>>)>> \o body)
        \* (lambda (x y) (list '+ x 3))
        MacroM == Lambda(<<Sym("x"), Sym("y")>>,
                         <<L(<<Sym("list"), Quote(Sym("+")), Sym("x"), IntObj(3)>>)>>)
        \* (let BINDINGS body) or (let* BINDINGS body)
        Binding(kind, bindings, body) == L(<<Sym(kind), L(bindings), body>>)
        \* (lambda (x) (list '+ x k))
        MacroPlus(k) ==
            Lambda(<<Sym("x")>>,
                   <<L(<<Sym("list"), Quote(Sym("+")), Sym("x"), IntObj(k)>>)>>)
        \* (lambda (x) (list 'r x)): a macro whose expansion calls the macro again
        MacroR == Lambda(<<Sym("x")>>, <<L(<<Sym("list"), Quote(Sym("r")), Sym("x")>>)>>)
        \* (lambda (x &optional y &rest z) (car z))
        HasRest == Lambda(<<Sym("x"), Sym("&optional"), Sym("y"), Sym("&rest"), Sym("z")>>,
                          <<L(<<Sym("car"), Sym("z")>>)>>)
        \* (defalias 'm (cons 'macro (lambda (x y) (list '+ x 3))))
        MacroDef == Defmacro("m", MacroM)
        \* (m 5 1)
        MacroCall == L(<<Sym("m"), IntObj(5), IntObj(1)>>)
        \* (+ (m 2 4) (m 4 9))
        MacroSum == L(<<Sym("+"), L(<<Sym("m"), IntObj(2), IntObj(4)>>),
                        L(<<Sym("m"), IntObj(4), IntObj(9)>>)>>)
    IN
    << \* 1: 7
       << IntObj(7) >>,
       \* 2: (+ 1 (+ 2 3))
       << L(<<Sym("+"), IntObj(1), L(<<Sym("+"), IntObj(2), IntObj(3)>>)>>) >>,
       \* 3: (let ((foo 5) (bar 8)) (+ foo bar))
       << L(<<Sym("let"), L(<<L(<<Sym("foo"), IntObj(5)>>), L(<<Sym("bar"), IntObj(8)>>)>>),
              L(<<Sym("+"), Sym("foo"), Sym("bar")>>)>>) >>,
       \* 4: (let ((foo 5)) (let ((baz foo) bob guz) baz))
       << Let1("foo", IntObj(5),
               <<L(<<Sym("let"), L(<<L(<<Sym("baz"), Sym("foo")>>), Sym("bob"), Sym("guz")>>),
                     Sym("baz")>>)>>) >>,
       \* 5: (let (bob (baz 1) (guz)) baz)
       << L(<<Sym("let"), L(<<Sym("bob"), L(<<Sym("baz"), IntObj(1)>>), L(<<Sym("guz")>>)>>),
              Sym("baz")>>) >>,
       \* 6: (if nil 1 2)
       << L(<<Sym("if"), Nil, IntObj(1), IntObj(2)>>) >>,
       \* 7: (if t 2)
       << L(<<Sym("if"), <<"t">>, IntObj(2)>>) >>,
       \* 8: (let ((y 7) (x 5)) (if t 1) x)
       << L(<<Sym("let"), L(<<L(<<Sym("y"), IntObj(7)>>), L(<<Sym("x"), IntObj(5)>>)>>),
              L(<<Sym("if"), <<"t">>, IntObj(1)>>), Sym("x")>>) >>,
       \* 9: (let ((foo 1)) (setq foo 2) foo)
       << Let1("foo", IntObj(1), <<L(<<Sym("setq"), Sym("foo"), IntObj(2)>>), Sym("foo")>>) >>,
       \* 10: (let ((x 1)) (let ((a x) (b (setq x 2))) x))
       << Let1("x", IntObj(1),
               <<L(<<Sym("let"), L(<<L(<<Sym("a"), Sym("x")>>),
                                   L(<<Sym("b"), L(<<Sym("setq"), Sym("x"), IntObj(2)>>)>>)>>),
                     Sym("x")>>)>>) >>,
       \* 11: (progn (setq foo 2) foo) then foo
       << L(<<Sym("progn"), L(<<Sym("setq"), Sym("foo"), IntObj(2)>>), Sym("foo")>>), Sym("foo") >>,
       \* 12: (cond (nil 2) (3 4))
       << L(<<Sym("cond"), L(<<Nil, IntObj(2)>>), L(<<IntObj(3), IntObj(4)>>)>>) >>,
       \* 13: (cond (1) (2))
       << L(<<Sym("cond"), L(<<IntObj(1)>>), L(<<IntObj(2)>>)>>) >>,
       \* 14: (let ((foo t)) (while foo (setq foo nil)))
       << Let1("foo", <<"t">>,
               <<L(<<Sym("while"), Sym("foo"), L(<<Sym("setq"), Sym("foo"), Nil>>)>>)>>) >>,
       \* 15: (defalias 'has_rest (lambda (x &optional y &rest z) (car z)))
       \*     then (has_rest 7 9 11 13) and (has_rest 7)
       << Defalias("has_rest", HasRest),
          L(<<Sym("has_rest"), IntObj(7), IntObj(9), IntObj(11), IntObj(13)>>),
          L(<<Sym("has_rest"), IntObj(7)>>) >>,
       \* 16: (defalias 'f (lambda (x y) (+ x y))) then (+ 1 (f 2 3)) and (f 1)
       << Defalias("f", Lambda(<<Sym("x"), Sym("y")>>, <<L(<<Sym("+"), Sym("x"), Sym("y")>>)>>)),
          L(<<Sym("+"), IntObj(1), L(<<Sym("f"), IntObj(2), IntObj(3)>>)>>),
          L(<<Sym("f"), IntObj(1)>>) >>,
       \* 17: (defalias 'g '(lambda (x) x)) then (+ 1 (g 2))
       << Defalias("g", Quote(Lambda(<<Sym("x")>>, <<Sym("x")>>))),
          L(<<Sym("+"), IntObj(1), L(<<Sym("g"), IntObj(2)>>)>>) >>,
       \* 18: (defalias 'm (cons 'macro (lambda (x y) (list '+ x 3))))
       \*     then (m 5 1) and (+ (m 2 4) (m 4 9))
       << MacroDef, MacroCall, MacroSum >>,
       \* 19: (progn (defalias 'm (cons 'macro (lambda (x y) (list '+ x 3)))) (m 5 1))
       << L(<<Sym("progn"), MacroDef, MacroCall>>) >>,
       \* 20: (defalias 'm (cons 'macro '(lambda (x y) (list '+ x 3)))) then (m 5 1)
       \*     and (m 2 4)
       << Defmacro("m", Quote(MacroM)),
          L(<<Sym("m"), IntObj(5), IntObj(1)>>),
          L(<<Sym("m"), IntObj(2), IntObj(4)>>) >>,
       \* 21: (defalias 'r (cons 'macro (lambda (x) (list 'r x)))) then (r 1)
       << Defmacro("r", MacroR), L(<<Sym("r"), IntObj(1)>>) >>,
       \* 22: (defalias 'r (cons 'macro '(lambda (x) (list 'r x)))) then (r 1)
       << Defmacro("r", Quote(MacroR)), L(<<Sym("r"), IntObj(1)>>) >>,
       \* 23: (defalias 'r (cons 'macro '(lambda (x) (r x)))) then (r 1) and (r 2)
       << Defmacro("r", Quote(Lambda(<<Sym("x")>>, <<L(<<Sym("r"), Sym("x")>>)>>))),
          L(<<Sym("r"), IntObj(1)>>),
          L(<<Sym("r"), IntObj(2)>>) >>,
       \* 24: (nofn), (1+ 1 2) and (cons 1)
       << L(<<Sym("nofn")>>) >>,
       << L(<<Sym("1+"), IntObj(1), IntObj(2)>>) >>,
       << L(<<Sym("cons"), IntObj(1)>>) >>,
       \* 27: (list) and (defalias 'h (lambda (&rest z) z)) then (h) and (h 1 2)
       << L(<<Sym("list")>>) >>,
       << Defalias("h", Lambda(<<Sym("&rest"), Sym("z")>>, <<Sym("z")>>)),
          L(<<Sym("h")>>),
          L(<<Sym("h"), IntObj(1), IntObj(2)>>) >>,
       \* 29: (while t)
       << L(<<Sym("while"), <<"t">>>>) >>,
       \* 30: (progn (defalias 'g '(lambda (x) x)) (+ 1 (g 2)))
       << L(<<Sym("progn"), Defalias("g", Quote(Lambda(<<Sym("x")>>, <<Sym("x")>>))),
              L(<<Sym("+"), IntObj(1), L(<<Sym("g"), IntObj(2)>>)>>)>>) >>,
       \* 31: (defalias 'm (cons 'macro '(lambda (x) (list '+ x 3))))
       \*     then (+ (m 5) (m 2)),
       \*     (defalias 'm (cons 'macro '(lambda (x) (list '+ x 4)))) and (m 5)
       << Defmacro("m", Quote(MacroPlus(3))),
          L(<<Sym("+"), L(<<Sym("m"), IntObj(5)>>), L(<<Sym("m"), IntObj(2)>>)>>),
          Defmacro("m", Quote(MacroPlus(4))),
          L(<<Sym("m"), IntObj(5)>>) >>,
       \* 32: (defalias 'h (cons 'macro
       \*         (lambda () (defalias 'm (cons 'macro '(lambda () 2))) 7)))
       \*     then (defalias 'm (cons 'macro '(lambda () (h)))), (m) and (m):
       \*     compiling the body of m expands h, which defines m again
       << Defmacro("h", Lambda(<<>>, <<Defmacro("m", Quote(Lambda(<<>>, <<IntObj(2)>>))),
                                      IntObj(7)>>)),
          Defmacro("m", Quote(Lambda(<<>>, <<L(<<Sym("h")>>)>>))),
          L(<<Sym("m")>>),
          L(<<Sym("m")>>) >>,
       \* 33: (let ((x 1)) (let ((x 2) (y x)) y))
       << Let1("x", IntObj(1),
               <<Binding("let", <<L(<<Sym("x"), IntObj(2)>>), L(<<Sym("y"), Sym("x")>>)>>,
                         Sym("y"))>>) >>,
       \* 34: (let ((x 1)) (let (x (y x)) y))
       << Let1("x", IntObj(1),
               <<Binding("let", <<Sym("x"), L(<<Sym("y"), Sym("x")>>)>>, Sym("y"))>>) >>,
       \* 35: (let ((x 1)) (let* ((x 2) (y x)) y))
       << Let1("x", IntObj(1),
               <<Binding("let*", <<L(<<Sym("x"), IntObj(2)>>), L(<<Sym("y"), Sym("x")>>)>>,
                         Sym("y"))>>) >>,
       \* 36: (let ((y 1)) (let* ((x y) (y 2)) x))
       << Let1("y", IntObj(1),
               <<Binding("let*", <<L(<<Sym("x"), Sym("y")>>), L(<<Sym("y"), IntObj(2)>>)>>,
                         Sym("x"))>>) >>,
       \* 37: (setq x 1) then (let ((x 2) (y x)) y)
       << L(<<Sym("setq"), Sym("x"), IntObj(1)>>),
          Binding("let", <<L(<<Sym("x"), IntObj(2)>>), L(<<Sym("y"), Sym("x")>>)>>,
                  Sym("y")) >>,
       \* 38: (defalias 'g '(lambda (x) x)) then (g 2)
       << Defalias("g", Quote(Lambda(<<Sym("x")>>, <<Sym("x")>>))),
          L(<<Sym("g"), IntObj(2)>>) >>,
       \* 39: (cond), (cond ()) and (cond (nil 1) ())
       << L(<<Sym("cond")>>),
          L(<<Sym("cond"), Nil>>),
          L(<<Sym("cond"), L(<<Nil, IntObj(1)>>), Nil>>) >>,
       \* 40: (setq foo 1) then (cond (1 7) ((setq foo 3))) and foo
       << L(<<Sym("setq"), Sym("foo"), IntObj(1)>>),
          L(<<Sym("cond"), L(<<IntObj(1), IntObj(7)>>),
              L(<<L(<<Sym("setq"), Sym("foo"), IntObj(3)>>)>>)>>),
          Sym("foo") >>,
       \* 41: (while nil)
       << L(<<Sym("while"), Nil>>) >>,
       \* 42: (setq foo t) then (while foo (setq foo nil)) and foo
       << L(<<Sym("setq"), Sym("foo"), <<"t">>>>),
          L(<<Sym("while"), Sym("foo"), L(<<Sym("setq"), Sym("foo"), Nil>>)>>),
          Sym("foo") >>,
       \* 43: (defalias 'f (lambda (x y) (+ x y))),
       \*     (defalias 'h (lambda (x) (+ (f x 1) (f x 2)))) then (+ 10 (h 5))
       << Defalias("f", Lambda(<<Sym("x"), Sym("y")>>, <<L(<<Sym("+"), Sym("x"), Sym("y")>>)>>)),
          Defalias("h", Lambda(<<Sym("x")>>,
                               <<L(<<Sym("+"), L(<<Sym("f"), Sym("x"), IntObj(1)>>),
                                    L(<<Sym("f"), Sym("x"), IntObj(2)>>)>>)>>)),
          L(<<Sym("+"), IntObj(10), L(<<Sym("h"), IntObj(5)>>)>>) >>,
       \* 44: (defalias 'f (lambda (x) (if t 1) (if t 1) (setq x 2)))
       \*     then (+ 7 (f 3))
       << Defalias("f", Lambda(<<Sym("x")>>,
                               <<L(<<Sym("if"), <<"t">>, IntObj(1)>>),
                                 L(<<Sym("if"), <<"t">>, IntObj(1)>>),
                                 L(<<Sym("setq"), Sym("x"), IntObj(2)>>)>>)),
          L(<<Sym("+"), IntObj(7), L(<<Sym("f"), IntObj(3)>>)>>) >>,
       \* 45: bar, then (setq bar nil) and bar
       << Sym("bar"), L(<<Sym("setq"), Sym("bar"), Nil>>), Sym("bar") >>,
       \* 46: (+ (setq foo 1) bar), foo, (setq foo 2), foo
       << L(<<Sym("+"), L(<<Sym("setq"), Sym("foo"), IntObj(1)>>), Sym("bar")>>),
          Sym("foo"),
          L(<<Sym("setq"), Sym("foo"), IntObj(2)>>),
          Sym("foo") >>,
       \* 47: (defalias 'f (lambda (x) (setq foo x) bar)), (+ 1 (f 3)), foo,
       \*     (nofn), foo
       << Defalias("f", Lambda(<<Sym("x")>>,
                               <<L(<<Sym("setq"), Sym("foo"), Sym("x")>>), Sym("bar")>>)),
          L(<<Sym("+"), IntObj(1), L(<<Sym("f"), IntObj(3)>>)>>),
          Sym("foo"),
          L(<<Sym("nofn")>>),
          Sym("foo") >>,
       \* 48: (+ (defalias 'g (lambda (x) x)) bar), (g 5)
       << L(<<Sym("+"), Defalias("g", Lambda(<<Sym("x")>>, <<Sym("x")>>)), Sym("bar")>>),
          L(<<Sym("g"), IntObj(5)>>) >>,
       \* 49..52: (quote), (quote 1 2), (function), (function a b c)
       << L(<<Sym("quote")>>) >>,
       << L(<<Sym("quote"), IntObj(1), IntObj(2)>>) >>,
       << L(<<Sym("function")>>) >>,
       << L(<<Sym("function"), Sym("a"), Sym("b"), Sym("c")>>) >>,
       \* 53..56: (if), (if 1), (let), (while)
       << L(<<Sym("if")>>) >>,
       << L(<<Sym("if"), IntObj(1)>>) >>,
       << L(<<Sym("let")>>) >>,
       << L(<<Sym("while")>>) >>,
       \* 57..59: (let (1)), (let (foo 1)), (let* ((a 1) (b) c 2) a)
       << L(<<Sym("let"), L(<<IntObj(1)>>)>>) >>,
       << L(<<Sym("let"), L(<<Sym("foo"), IntObj(1)>>)>>) >>,
       << L(<<Sym("let*"), L(<<L(<<Sym("a"), IntObj(1)>>), L(<<Sym("b")>>),
                                Sym("c"), IntObj(2)>>), Sym("a")>>) >>,
       \* 60..62: (let ((foo 1 2))), (let ((foo 1 2 3)) foo),
       \*         (let* ((a 1) (foo 1 2)))
       << L(<<Sym("let"), L(<<L(<<Sym("foo"), IntObj(1), IntObj(2)>>)>>)>>) >>,
       << L(<<Sym("let"), L(<<L(<<Sym("foo"), IntObj(1), IntObj(2), IntObj(3)>>)>>),
              Sym("foo")>>) >>,
       << L(<<Sym("let*"), L(<<L(<<Sym("a"), IntObj(1)>>),
                                L(<<Sym("foo"), IntObj(1), IntObj(2)>>)>>)>>) >>,
       \* 63..65: (setq foo), (setq foo 1 bar), (setq a 1 b 2 c)
       << L(<<Sym("setq"), Sym("foo")>>) >>,
       << L(<<Sym("setq"), Sym("foo"), IntObj(1), Sym("bar")>>) >>,
       << L(<<Sym("setq"), Sym("a"), IntObj(1), Sym("b"), IntObj(2), Sym("c")>>) >>,
       \* 66..67: (1 2), ((lambda (x) x) 1)
       << L(<<IntObj(1), IntObj(2)>>) >>,
       << L(<<Lambda(<<Sym("x")>>, <<Sym("x")>>), IntObj(1)>>) >>,
       \* 68..70: (foo . 1), (quote . 1), (if . 1)
       << slice_into_list(<<Sym("foo")>>, IntObj(1)) >>,
       << slice_into_list(<<Sym("quote")>>, IntObj(1)) >>,
       << slice_into_list(<<Sym("if")>>, IntObj(1)) >>,
       \* 71..74: (foo 1 . 2), (quote 1 . 2), (if 1 2 . 3), (setq foo 1 . 2)
       << slice_into_list(<<Sym("foo"), IntObj(1)>>, IntObj(2)) >>,
       << slice_into_list(<<Sym("quote"), IntObj(1)>>, IntObj(2)) >>,
       << slice_into_list(<<Sym("if"), IntObj(1), IntObj(2)>>, IntObj(3)) >>,
       << slice_into_list(<<Sym("setq"), Sym("foo"), IntObj(1)>>, IntObj(2)) >>,
       \* 75, 76: (let ((x 5)) (if nil 1 x)), (let ((x 5)) (if t x 1))
       << Let1("x", IntObj(5), <<L(<<Sym("if"), Nil, IntObj(1), Sym("x")>>)>>) >>,
       << Let1("x", IntObj(5), <<L(<<Sym("if"), <<"t">>, Sym("x"), IntObj(1)>>)>>) >>,
       \* 77: (let ((x 1)) (lambda () x))
       << Let1("x", IntObj(1), <<Lambda(<<>>, <<Sym("x")>>)>>) >>,
       \* 78: (let ((x 1) (y 2)) (lambda (x) x))
       << L(<<Sym("let"), L(<<L(<<Sym("x"), IntObj(1)>>), L(<<Sym("y"), IntObj(2)>>)>>),
              Lambda(<<Sym("x")>>, <<Sym("x")>>)>>) >>,
       \* 79: (lambda (a) (lambda (b) a))
       << Lambda(<<Sym("a")>>, <<Lambda(<<Sym("b")>>, <<Sym("a")>>)>>) >>,
       \* 80: (progn (lambda (x) x) (lambda (x) x))
       << L(<<Sym("progn"), Lambda(<<Sym("x")>>, <<Sym("x")>>),
              Lambda(<<Sym("x")>>, <<Sym("x")>>)>>) >>,
       \* 81: (let ((x 1)) (lambda (y) 1 x))
       << Let1("x", IntObj(1), <<Lambda(<<Sym("y")>>, <<IntObj(1), Sym("x")>>)>>) >>,
       \* 82: (defalias 'm (cons 'macro '(lambda (x 1) x))) then (m 1)
       << Defmacro("m", Quote(Lambda(<<Sym("x"), IntObj(1)>>, <<Sym("x")>>))),
          L(<<Sym("m"), IntObj(1)>>) >>,
       \* 83: (defalias 'm (cons 'macro '(lambda (x) (if)))) then (m 1)
       << Defmacro("m", Quote(Lambda(<<Sym("x")>>, <<L(<<Sym("if")>>)>>))),
          L(<<Sym("m"), IntObj(1)>>) >>,
       \* 84: (defalias 'm (cons 'macro '(progn 1))) then (m 1)
       << Defmacro("m", Quote(L(<<Sym("progn"), IntObj(1)>>))),
          L(<<Sym("m"), IntObj(1)>>) >>
    >>

(***************************************************************************)
(* The evaluator as a state machine: eval compiles the next top-level      *)
(* form, Routine::execute runs the expression one opcode at a time.        *)
(***************************************************************************)
VARIABLES
    dbg,        \* the build has debug assertions and overflow checks
    pending,    \* the top-level forms not yet evaluated
    env,        \* the Environment
    phase,      \* "read": between forms; "run": inside execute; "halt": stopped
    comp,       \* the Compiler of the current form when compile returned
    rout,       \* the Routine of the current form
    steps,      \* opcodes dispatched for the current form
    results,    \* the values of the forms evaluated so far
    refenv,     \* the environment of the reference evaluator
    refres      \* the reference evaluator's result for the current form

vars == <<dbg, pending, env, phase, comp, rout, steps, results, refenv, refres>>


Init ==
    /\ dbg \in BOOLEAN
    /\ \E i \in 1..Len(Programs) : pending = Programs[i]
    /\ env = DefaultEnv
    /\ phase = "read"
    /\ comp = NewCompiler(<<>>, DefaultEnv, 0, <<>>, FALSE)
    /\ rout = NewRoutine(<<>>, Expression(<<>>, <<>>, <<>>), 0, FALSE)
    /\ steps = 0
    /\ results = <<>>
    /\ refenv = DefaultEnv
    /\ refres = RR(NoErr, Nil, DefaultEnv, <<>>)

\* eval: compile the form; on success execute starts on the expression
Compile ==
    /\ phase = "read"
    /\ pending # <<>>
    /\ \E c \in {compile(Head(pending), env, dbg)} :
           /\ comp' = c
           /\ env' = c.env
           /\ phase' = IF Failed(c) THEN "halt" ELSE "run"
           /\ rout' = IF Failed(c)
                      THEN NewRoutine(<<>>, Expression(<<>>, <<>>, <<>>), 0, FALSE)
                      ELSE execute(Expression(c.codes, c.constants, c.depths), dbg)
    /\ refres' = RefEval(Head(pending), <<>>, refenv, MaxEval)
    /\ steps' = 0
    /\ UNCHANGED <<dbg, pending, results, refenv>>

\* the opcode the loop of run is about to fetch, -1 when ip is out of range
NextOp == IF InRange(rout.frame, 1) THEN ByteAt(rout.frame, 0) ELSE -1

\* one iteration of the loop of run, which goes on and fetches an opcode
\* that satisfies fetched
Dispatch(fetched) ==
    /\ phase = "run"
    /\ rout.status = "run"
    /\ steps < MaxSteps
    /\ fetched
    /\ \E n \in {RunStep(rout, env)} :
           /\ rout' = n[1]
           /\ env' = n[2]
    /\ steps' = steps + 1
    /\ UNCHANGED <<dbg, pending, phase, comp, results, refenv, refres>>

\* the arms of run, by opcode family
StepStack ==
    Dispatch(\/ (NextOp >= 0 /\ NextOp < OpCode.VarRef0)
             \/ NextOp \in {OpCode.Discard, OpCode.DiscardN, OpCode.DiscardNKeepTOS,
                            OpCode.Duplicate})

StepConstant == Dispatch(NextOp >= 0 /\ Family(NextOp) = OpCode.Constant0)

StepVar == Dispatch(NextOp >= 0 /\ Family(NextOp) \in {OpCode.VarRef0, OpCode.VarSet0})

StepCall == Dispatch(NextOp >= 0 /\ Family(NextOp) = OpCode.Call0)

StepJump == Dispatch(NextOp \in JumpOps)

StepRet == Dispatch(NextOp = OpCode.Ret)

\* the fetch when ip is outside the code or the byte is no opcode
StepBadFetch == Dispatch(NextOp = -1 \/ NextOp > OpCode.Ret)

\* a release build that read outside the code vector: whatever the memory
\* there makes of it, the run crashes or returns some value
WildOutcome ==
    /\ phase = "run"
    /\ rout.status = "ub"
    /\ \/ rout' = PanicR(rout, "wild read")
       \/ \E v \in {Nil, IntObj(0)} : rout' = [rout EXCEPT !.status = "done", !.value = v]
    /\ UNCHANGED <<dbg, pending, env, phase, comp, steps, results, refenv, refres>>

\* execute returned Ok: the form is done
Finish ==
    /\ phase = "run"
    /\ rout.status = "done"
    /\ results' = Append(results, rout.value)
    /\ pending' = Tail(pending)
    /\ refenv' = refres.env
    /\ phase' = "read"
    /\ UNCHANGED <<dbg, env, comp, rout, steps, refres>>

\* execute returned Err or panicked: the evaluation of the text stops
Abort ==
    /\ phase = "run"
    /\ rout.status \in {"err", "panic"}
    /\ phase' = "halt"
    /\ UNCHANGED <<dbg, pending, env, comp, rout, steps, results, refenv, refres>>

Next ==
    \/ Compile
    \/ StepStack
    \/ StepConstant
    \/ StepVar
    \/ StepCall
    \/ StepJump
    \/ StepRet
    \/ StepBadFetch
    \/ WildOutcome
    \/ Finish
    \/ Abort

Spec == Init /\ [][Next]_vars

(***************************************************************************)
(* Stack discipline between compiler and interpreter.                      *)
(***************************************************************************)
\* the loop of run is at the first byte of an opcode
AtOpcode ==
    /\ phase = "run"
    /\ rout.status = "run"
    /\ InRange(rout.frame, 1)
    /\ rout.frame.code.depths[rout.frame.ip + 1] # NoDepth

\* C1: at every opcode boundary reached while executing compiled code, the
\* operand-stack depth of the current frame equals the depth of the
\* compiler's virtual stack recorded for that opcode.  Slot 0 of the
\* compiler's vars stands for stack index 0 in the frame execute made and
\* for the slot after the function slot in a called frame
C1_DepthContract ==
    AtOpcode =>
        Len(rout.stack)
          - (IF Len(rout.call_frames) = 0 THEN 0 ELSE rout.frame.start + 1)
            = rout.frame.code.depths[rout.frame.ip + 1]

(***************************************************************************)
(* Compiled code against the Lisp semantics.                               *)
(***************************************************************************)
\* execute has returned, with a value, an error or a panic
Returned == phase = "run" /\ rout.status \in {"done", "err", "panic"}

\* C2: for every form whose direct evaluation terminates, executing the
\* compiled form returns the value the reference evaluator gives and leaves
\* the same global variable bindings
C2_RoundTrip ==
    (Returned /\ refres.err = NoErr) =>
        /\ rout.status = "done"
        /\ rout.value = refres.value
        /\ env.vars = refres.env.vars

(***************************************************************************)
(* Two-byte operands.                                                      *)
(***************************************************************************)
\* C3: the two bytes the compiler emitted for a 16-bit operand or jump offset
\* (high byte first) are read back by the interpreter as the same value: when
\* run is about to dispatch an opcode that reads its operand with next2, the
\* value read, split as the compiler splits it, gives the bytes in the code
C3_TwoByteRoundTrip ==
    (AtOpcode /\ OperandLen(NextOp) = 2 /\ InRange(rout.frame, 3)) =>
        /\ HighByte(Operand(rout.frame, NextOp)) = ByteAt(rout.frame, 1)
        /\ AsU8(Operand(rout.frame, NextOp)) = ByteAt(rout.frame, 2)

(***************************************************************************)
(* Binding forms: let_bind, variable_reference and setq applied to the     *)
(* binding lists of a parallel let inside one enclosing binding.           *)
(* pending holds the binding list followed by the body forms compiled so   *)
(* far.                                                                    *)
(***************************************************************************)
\* the longest binding list
MaxBind == 3
\* the most variable reads compiled before the setq
MaxReads == 2

LetNames == <<"a", "b", "x", "y", "z">>
\* the virtual stack the let is compiled in: one enclosing binding
OuterVars == <<"foo">>

\* the binding lists of up to MaxBind bindings, the i-th binding in one of
\* the shapes a, (a) and (a i)
InitBind ==
    /\ dbg \in BOOLEAN
    /\ \E k \in 1..MaxBind : \E shapes \in [1..k -> {"symbol", "list", "value"}] :
           pending =
               <<L([i \in 1..k |->
                      CASE shapes[i] = "symbol" -> Sym(LetNames[i])
                        [] shapes[i] = "list" -> L(<<Sym(LetNames[i])>>)
                        [] shapes[i] = "value" -> L(<<Sym(LetNames[i]), IntObj(i)>>)])>>
    /\ env = DefaultEnv
    /\ phase = "read"
    /\ comp = NewCompiler(<<>>, DefaultEnv, 0, <<>>, FALSE)
    /\ rout = NewRoutine(<<>>, Expression(<<>>, <<>>, <<>>), 0, FALSE)
    /\ steps = 0
    /\ results = <<>>
    /\ refenv = DefaultEnv
    /\ refres = RR(NoErr, Nil, DefaultEnv, <<>>)

\* the number of bindings of the let
NumBindings == Len(Items(pending[1]))

\* compile_let up to the return of let_bind
LetBind ==
    /\ phase = "read"
    /\ comp' = let_bind(NewCompiler(OuterVars, env, MaxExpand, <<>>, dbg),
                        Head(pending), TRUE)[1]
    /\ phase' = "bound"
    /\ UNCHANGED <<dbg, pending, env, rout, steps, results, refenv, refres>>

\* a form of the body that reads a bound variable, compiled as an argument
\* of a call is: its value stays on the virtual stack
BodyRef ==
    /\ phase = "bound"
    /\ ~Failed(comp)
    /\ Len(pending) <= MaxReads
    /\ \E i \in 1..NumBindings :
           /\ comp' = compile_form(comp, Sym(LetNames[i]))
           /\ pending' = Append(pending, Sym(LetNames[i]))
    /\ UNCHANGED <<dbg, env, phase, rout, steps, results, refenv, refres>>

\* (setq name 7) as the next form
BodySetq ==
    /\ phase = "bound"
    /\ ~Failed(comp)
    /\ \E i \in 1..NumBindings :
           LET form == L(<<Sym("setq"), Sym(LetNames[i]), IntObj(7)>>)
           IN  /\ comp' = compile_form(comp, form)
               /\ pending' = Append(pending, form)
    /\ phase' = "set"
    /\ UNCHANGED <<dbg, env, rout, steps, results, refenv, refres>>

SpecBind == InitBind /\ [][LetBind \/ BodyRef \/ BodySetq]_vars

\* C4: after let_bind of a parallel let with bindings of any shapes, the top
\* k virtual slots carry the k binding names in binding order, so that a
\* reference to a name reads the slot of that binding's own value
C4_LetNamesSlots ==
    phase = "bound" =>
        /\ ~Failed(comp)
        /\ comp.vars = OuterVars \o SubSeq(LetNames, 1, NumBindings)

\* C5: setq of a lexically bound symbol emits a StackSet that targets the
\* slot of the symbol's binding, also when earlier forms whose values are
\* still on the stack read the same variable.  The case is a setq compiled
\* while the slots of the bindings still carry the binding names; run on a
\* stack as deep as vars was at the emit, set_ref(n) of the StackSet emitted
\* last writes the stack index depth - 1 - n
C5_SetqTargetsBinding ==
    LET bound == Len(OuterVars) + NumBindings
        \* the last opcode the compiler emitted, as a position in codes
        last == CHOOSE j \in 1..Len(comp.codes) :
                    /\ comp.depths[j] # NoDepth
                    /\ \A l \in (j + 1)..Len(comp.codes) : comp.depths[l] = NoDepth
        f == [CallFrame(Expression(comp.codes, comp.constants, comp.depths), 0) EXCEPT !.ip = last - 1]
        \* the symbol of the setq compiled last
        symbol == SymName(Items(pending[Len(pending)])[2])
    IN  (/\ phase = "set"
         /\ Len(comp.vars) >= bound
         /\ SubSeq(comp.vars, 1, bound) = OuterVars \o SubSeq(LetNames, 1, NumBindings))
        =>
            /\ ~Failed(comp)
            /\ Family(comp.codes[last]) = OpCode.StackSet0
            /\ comp.depths[last] - 1 - Operand(f, comp.codes[last])
                 = Len(OuterVars)
                     + (CHOOSE i \in 1..NumBindings : LetNames[i] = symbol) - 1

(***************************************************************************)
(* Calls.                                                                  *)
(***************************************************************************)
\* the number of arguments of the Call opcode run is about to dispatch
CallArgCount == Operand(rout.frame, NextOp)

\* the Call started a frame of a compiled function
EnteredFrame == Len(rout'.call_frames) = Len(rout.call_frames) + 1

\* C6: a Call n that returns leaves one slot, the return value, in place of
\* the n+1 slots of the function and its arguments: a subroutine or an
\* interpreted cons form is done within the Call, a compiled function gets a
\* frame that starts at the function slot and its Ret leaves the stack one
\* slot above that start
C6_CallStackNeutral ==
    [][ /\ (StepCall /\ rout'.status = "run" /\ ~EnteredFrame)
            => Len(rout'.stack) = Len(rout.stack) - CallArgCount
        /\ (StepCall /\ rout'.status = "run" /\ EnteredFrame)
            => rout'.frame.start = Len(rout.stack) - CallArgCount - 1
        /\ (StepRet /\ rout'.status = "run" /\ Len(rout.call_frames) > 0)
            => Len(rout'.stack) = rout.frame.start + 1
      ]_vars

(***************************************************************************)
(* Calls of a function of every arity with every number of actuals: the    *)
(* text (defalias 'f (lambda PARAMS 0)) has been evaluated and the form    *)
(* (CALLEE 1 2 .. n) is evaluated next, CALLEE being f or a subroutine.    *)
(***************************************************************************)
\* the most required parameters, optional parameters and actuals
MaxRequired == 2
MaxOptional == 2
MaxActuals == 4

InitArgs ==
    /\ dbg \in BOOLEAN
    /\ LET \* the environment after eval of (defalias 'f (lambda PARAMS 0)),
           \* PARAMS being (a .. &optional x .. &rest z)
           Defined(req, opt, rest, d) ==
               LET names == <<"a", "b", "x", "y", "foo", "bar", "baz">>
                   params == [i \in 1..req |-> Sym(names[i])]
                               \o (IF opt > 0 THEN <<Sym("&optional")>> ELSE <<>>)
                               \o [i \in 1..opt |-> Sym(names[req + i])]
                               \o (IF rest THEN <<Sym("&rest"), Sym("z")>> ELSE <<>>)
               IN  Let(compile(L(<<Sym("defalias"), L(<<Sym("quote"), Sym("f")>>),
                                 L(<<Sym("lambda"), L(params), IntObj(0)>>)>>),
                           DefaultEnv, d),
                       LAMBDA c : RunToEnd(execute(Expression(c.codes, c.constants,
                                                              c.depths), d),
                                           c.env, MaxSteps)[2])
       IN
       \E callee \in {"f"} \cup SubrNames :
       \E req \in 0..MaxRequired : \E opt \in 0..MaxOptional : \E rest \in BOOLEAN :
       \E n \in 0..MaxActuals :
           /\ callee # "f" => (req = 0 /\ opt = 0 /\ ~rest)
           /\ env = IF callee = "f" THEN Defined(req, opt, rest, dbg) ELSE DefaultEnv
           \* (callee 1 2 .. n)
           /\ pending = <<L(<<Sym(callee)>> \o [i \in 1..n |-> IntObj(i)])>>
    /\ phase = "read"
    /\ comp = NewCompiler(<<>>, DefaultEnv, 0, <<>>, FALSE)
    /\ rout = NewRoutine(<<>>, Expression(<<>>, <<>>, <<>>), 0, FALSE)
    /\ steps = 0
    /\ results = <<>>
    /\ refenv = DefaultEnv
    /\ refres = RR(NoErr, Nil, DefaultEnv, <<>>)

SpecArgs ==
    InitArgs /\ [][Compile \/ StepConstant \/ StepCall \/ StepRet \/ Finish \/ Abort]_vars

\* the callee of the Call run is about to dispatch and its arity
Callee == resolve_callable(env, SymName(ref_at(rout.stack, CallArgCount)))
CalleeArgs ==
    IF Callee[1] = "LispFn" THEN Callee[2][2].args ELSE SubrArgs(Callee[2][2])

\* C7: on entry to a compiled function of arity (required, optional, rest)
\* called with n accepted actuals the frame holds required + optional
\* (+ 1 if rest) slots above the function slot: the actuals in call order,
\* nil for each missing optional parameter, and with rest one proper list of
\* the actuals beyond required + optional in call order, nil when none
C7_ArgumentAdjustment ==
    [][ (StepCall /\ Callee[1] = "LispFn" /\ EnteredFrame) =>
            LET fixed == CalleeArgs.required + CalleeArgs.optional
                \* the actuals of the Call in call order
                Actuals == SubSeq(rout.stack, Len(rout.stack) - CallArgCount + 1,
                                  Len(rout.stack))
                \* the stack below the actuals
                below == SubSeq(rout.stack, 1, Len(rout.stack) - CallArgCount)
                \* the argument slots of the frame the Call made
                slots == SubSeq(rout'.stack, Len(below) + 1, Len(rout'.stack))
            IN  /\ SubSeq(rout'.stack, 1, Len(below)) = below
                /\ rout'.frame.start = Len(below) - 1
                /\ Len(slots) = fixed + (IF CalleeArgs.rest THEN 1 ELSE 0)
                /\ \A i \in 1..fixed :
                       slots[i] = IF i <= CallArgCount THEN Actuals[i] ELSE Nil
                /\ CalleeArgs.rest =>
                       /\ slots[fixed + 1] = L(ListCars(slots[fixed + 1]))
                       /\ ListCars(slots[fixed + 1])
                              = SubSeq(Actuals, fixed + 1, CallArgCount)
      ]_vars

\* a frame was entered with two or more actuals collected in the &rest list
C7_RestCollected ==
    /\ phase = "run"
    /\ rout.status = "run"
    /\ Len(rout.call_frames) = 1
    /\ rout.frame.ip = 0
    /\ Len(rout.stack) > 0
    /\ IsCons(Top(rout.stack))
    /\ Len(ListCars(Top(rout.stack))) >= 2

C9_SameFormMacro ==
    (Returned /\ pending = Programs[19]) =>
        /\ rout.status = "done"
        /\ rout.value = IntObj(8)

\* C9 amended: once an earlier top-level form has defined m as a macro,
\* (m 5 1) evaluates to 8 and (+ (m 2 4) (m 4 9)) to 12, m being the macro
\* (lambda (x y) (list '+ x 3)) compiled by that form; a call of m in the
\* form that defines it is compiled as a function call and the run fails
\* with the macro-at-runtime error.  Program 18 is the definition of m
\* followed by the two calls, program 19 the definition and a call in one
\* progn
C9_SerialMacro ==
    LET \* m is bound to a macro
        defined == IsMacroCell(symbol_function(env, "m"))
    IN  /\ (Returned /\ pending = Tail(Programs[18]) /\ defined) =>
               (rout.status = "done" /\ rout.value = IntObj(8))
        /\ (Returned /\ pending = Tail(Tail(Programs[18])) /\ defined) =>
               (rout.status = "done" /\ rout.value = IntObj(12))
        /\ (Returned /\ pending = Programs[19]) =>
               /\ rout.status = "err"
               /\ rout.err = <<"Attempt to call macro at runtime", "m">>

\* the three forms were evaluated one after the other
C9_SerialDone == results = <<Sym("m"), IntObj(8), IntObj(12)>> /\ pending = <<>>

\* C10: whenever compile-time dispatch calls an expander for a macro S, S is
\* on macro_callstack during the call, whatever the kind of the macro body,
\* and the compilation of a call to a self-recursive macro never expands
\* without bound (it fails with RecursiveMacro)
C10_MacroGuard ==
    /\ \A i \in 1..Len(comp.log) : comp.log[i].guarded
    /\ comp.err # <<"host stack exhausted">>

\* C11: after the first expansion of a macro whose function cell is
\* (macro . (lambda ...)) the cell is (macro . F), F the compiled function,
\* and later expansions call F without compiling the lambda again; after a
\* re-definition of the macro, expansions use the new definition and never
\* the F cached for the old one.  Program 31 expands m twice in one form,
\* defines m again and expands it; program 32 defines m again while the
\* body of m is being compiled for its first expansion, and expands m once
\* more in a later form
C11_MacroMemo ==
    LET kinds == [i \in 1..Len(comp.log) |-> comp.log[i].kind]
        cell == symbol_function(env, "m")
    IN  /\ (phase = "run" /\ pending = Tail(Programs[31])) =>
               /\ kinds = <<"cons", "fn">>
               /\ IsMacroCell(cell)
               /\ Tag(ConsCdr(cell)) = "fn"
        /\ (Returned /\ pending = Tail(Programs[31])) =>
               (rout.status = "done" /\ rout.value = IntObj(13))
        /\ (Returned /\ pending = <<Programs[31][4]>>) =>
               (kinds = <<"cons">> /\ rout.status = "done" /\ rout.value = IntObj(9))
        /\ (Returned /\ pending = <<Programs[32][4]>>) =>
               (rout.status = "done" /\ rout.value = IntObj(2))

(***************************************************************************)
(* Scope of let and let*.                                                  *)
(***************************************************************************)
\* C12: in a parallel let no value form sees a name bound by that same let:
\* a reference in a value form resolves to the enclosing binding (programs
\* 33 and 34, value 1) or to the global variable (program 37, value 1); in
\* let* a value form sees the names bound earlier in the same let* (program
\* 35, value 2) and not those bound later (program 36, value 1).  The
\* values are those the direct evaluation of the form gives
C12_BindingVisibility ==
    (Returned /\ \E i \in 33..37 : pending = <<Programs[i][Len(Programs[i])]>>) =>
        /\ refres.err = NoErr
        /\ rout.status = "done"
        /\ rout.value = refres.value
        /\ rout.value = IF pending = Programs[35] THEN IntObj(2) ELSE IntObj(1)


(***************************************************************************)
(* The emitters at the limits of their operand widths.  A behaviour takes  *)
(* one compiler whose pool, virtual stack or code vector has a length near *)
(* a limit and applies one emitter to it.  The vectors are built inside    *)
(* the step; the state keeps what the emitter wrote.                       *)
(***************************************************************************)
\* how far around 0, i16::MAX + 1 and u16::MAX + 1 the lengths range
MaxNear == 2
\* the longest parameter list of which every spelling is tried
MaxTokens == 4
\* the most captured values and the longest pool of a closure prototype
MaxCaptures == 7

\* make_closure without the check that the captured values fit
make_closure_unchecked(prototype, closure_vars) ==
    LET const_len == Len(prototype.body.constants)
        captured == Len(closure_vars)
        constants == [i \in 1..const_len |->
                         IF i <= captured THEN closure_vars[i] ELSE prototype.body.constants[i]]
    IN  [err |-> NoErr,
         func |-> [body |-> [prototype.body EXCEPT !.constants = constants],
                   args |-> prototype.args],
         prototype |-> prototype]

\* make_closure: the Result, and the prototype as the call leaves it.  The
\* constants are written in a clone of the pool of the prototype
make_closure(prototype, closure_vars) ==
    LET const_len == Len(prototype.body.constants)
        captured == Len(closure_vars)
        constants == [i \in 1..const_len |->
                         IF i <= captured THEN closure_vars[i] ELSE prototype.body.constants[i]]
    IN  IF ~(captured <= 5 /\ captured <= const_len)
        THEN [err |-> <<"Closure vars do not fit in const vec">>,
              func |-> DefaultLispFn, prototype |-> prototype]
        ELSE [err |-> NoErr,
              func |-> [body |-> [prototype.body EXCEPT !.constants = constants],
                        args |-> prototype.args],
              prototype |-> prototype]


\* the i-th constant of the pool: the integer i, or the list (i) for even i
PoolObj(i) == IF i % 2 = 0 THEN L(<<IntObj(i)>>) ELSE IntObj(i)

\* the compiler the emitter of input in is applied to, Filler(c, n) being c
\* with n one-byte opcodes appended to its code vector
Before(in, d) ==
    LET c == NewCompiler(<<>>, DefaultEnv, 0, <<>>, d)
        Filler(c0, n) ==
            [c0 EXCEPT !.codes = @ \o [i \in 1..n |-> OpCode.Discard],
                       !.depths = @ \o [i \in 1..n |-> 0]]
    IN  CASE in.op \in {"const", "lambda"} ->
                 [c EXCEPT !.constants = @ \o [i \in 1..in.n |-> PoolObj(i)]]
          [] in.op \in {"ref", "set"} ->
                 [c EXCEPT !.vars = @ \o [i \in 1..in.n |->
                                              IF i = in.k + 1 THEN "x" ELSE NoneSym]]
          [] in.op = "jump" ->
                 Filler(jump(Filler(c, in.k), OpCode.Jump, 0)[1], in.n)
          [] in.op = "back" -> Filler(c, in.k + in.n)

\* what the emitter did to compiler b, a the compiler after it: the bytes it
\* wrote from code index from on, the constants it appended, and whether it
\* left the earlier constants alone
Outcome(b, a, from) ==
    [err |-> a.err,
     codes |-> SubSeq(a.codes, from + 1,
                      IF Len(a.codes) < from + 3 THEN Len(a.codes) ELSE from + 3),
     code_len |-> Len(a.codes),
     pool_len |-> Len(a.constants),
     pool_new |-> SubSeq(a.constants, Len(b.constants) + 1, Len(a.constants)),
     pool_kept |-> /\ Len(a.constants) >= Len(b.constants)
                   /\ SubSeq(a.constants, 1, Len(b.constants)) = b.constants,
     depth |-> Len(a.vars)]

\* the emitter inputs: op the emitter, n the length, k the place
\*   const   pool of n constants, the constant inserted is PoolObj(k), which
\*           the pool holds at index k - 1 unless k = n + 1
\*   lambda  pool of n constants
\*   ref     virtual stack of n entries, the variable read is entry k
\*   set     virtual stack of n entries, the variable set is entry k
\*   jump    forward jump emitted at code index k over n bytes
\*   back    backward jump to code index k over n bytes
InitVec ==
    /\ dbg \in BOOLEAN
    /\ LET Near(limit) == (limit - MaxNear)..(limit + MaxNear)
           Tokens == {Sym("x"), Sym("y"), Sym("&optional"), Sym("&rest"), IntObj(1)}
           pools == (0..MaxNear) \cup ((U16Max + 1 - MaxNear)..(U16Max + 1))
           stacks == (1..(MaxNear + 1)) \cup Near(U16Max + 2)
           spans == (0..MaxNear) \cup Near(32768) \cup Near(U16Max + 1)
       IN  \/ \E n \in pools : \E k \in {1, 2, n, n + 1} :
                  /\ k \in 1..(n + 1)
                  /\ pending = [op |-> "const", n |-> n, k |-> k]
           \/ \E n \in pools : pending = [op |-> "lambda", n |-> n, k |-> 0]
           \/ \E o \in {"ref", "set"} : \E n \in stacks : \E k \in {0, 1} :
                  /\ k < n
                  /\ pending = [op |-> o, n |-> n, k |-> k]
           \/ \E o \in {"jump", "back"} : \E n \in spans : \E k \in {0, 3} :
                  pending = [op |-> o, n |-> n, k |-> k]
           \* a parameter list: head, n names p, tail
           \/ \E len \in 0..MaxTokens : \E head \in [1..len -> Tokens] :
                  pending = [op |-> "params", n |-> 0, head |-> head, tail |-> <<>>]
           \/ \E n \in Near(U16Max) :
               \E head \in {<<>>, <<Sym("&optional")>>, <<Sym("x"), Sym("&optional")>>} :
               \E tail \in {<<>>, <<Sym("&rest"), Sym("y")>>} :
                  pending = [op |-> "params", n |-> n, head |-> head, tail |-> tail]
           \* the tail of a lambda form: nothing at all (n = 0), or a
           \* parameter list and body forms (n = 1)
           \/ pending = [op |-> "fn", n |-> 0, head |-> <<>>, tail |-> <<>>]
           \* a prototype with n constants and k captured values
           \/ \E n \in 0..MaxCaptures : \E k \in 0..MaxCaptures : \E rest \in BOOLEAN :
                  pending = [op |-> "closure", n |-> n, k |-> k, rest |-> rest]
           \/ \E len \in 0..(MaxTokens - 1) : \E head \in [1..len -> Tokens] :
               \E tail \in {<<>>, <<Nil>>, <<IntObj(1)>>, <<Sym("x")>>,
                             <<Sym("y"), IntObj(2)>>} :
                  pending = [op |-> "fn", n |-> 1, head |-> head, tail |-> tail]
           \* (let (x ... x) 7) or (let* (x ... x) 7) with n bindings
           \/ \E n \in (1..MaxNear) \cup Near(256) : \E parallel \in BOOLEAN :
                  pending = [op |-> "let", n |-> n, parallel |-> parallel]
    /\ env = DefaultEnv
    /\ phase = "read"
    /\ comp = NewCompiler(<<>>, DefaultEnv, 0, <<>>, FALSE)
    /\ rout = NewRoutine(<<>>, Expression(<<>>, <<>>, <<>>), 0, FALSE)
    /\ steps = 0
    /\ results = <<>>
    /\ refenv = DefaultEnv
    /\ refres = RR(NoErr, Nil, DefaultEnv, <<>>)

\* one function of the compiler applied to the input
NextVec ==
    /\ phase = "read"
    /\ phase' = "done"
    /\ \/ /\ pending.op \in {"const", "lambda", "ref", "set", "jump", "back"}
          /\ \E b \in {Before(pending, dbg)} :
               \/ /\ pending.op = "const"
                  /\ comp' = Outcome(b, const_ref(b, PoolObj(pending.k), NoneSym), 0)
               \/ /\ pending.op = "lambda"
                  /\ comp' = Outcome(b, add_const_lambda(b, DefaultLispFn), 0)
               \/ /\ pending.op = "ref"
                  /\ comp' = Outcome(b, stack_ref(b, pending.k, "x"), 0)
               \/ /\ pending.op = "set"
                  /\ comp' = Outcome(b, stack_set(b, pending.k), 0)
               \/ /\ pending.op = "jump"
                  /\ comp' = Outcome(b, set_jump_target(b, <<pending.k + 1, OpCode.Jump>>),
                                     pending.k)
               \/ /\ pending.op = "back"
                  /\ comp' = Outcome(b, jump_back(b, OpCode.Jump, pending.k), Len(b.codes))
       \* parse_fn_binding on the items of the list; of a long name list the
       \* state keeps the length and the first and last names
       \/ /\ pending.op = "params"
          /\ \E p \in {parse_items(pending.head
                                     \o (<<>> \o [i \in 1..pending.n |-> Sym("p")])
                                     \o pending.tail, dbg)} :
                 comp' = [p EXCEPT !.args = [len |-> Len(p.args),
                                             names |-> IF Len(p.args) <= MaxTokens + 1
                                                       THEN p.args
                                                       ELSE SubSeq(p.args, 1, MaxTokens)
                                                            \o <<p.args[Len(p.args)]>>]]
       \* compile_lambda on the tail of a lambda form
       \/ /\ pending.op = "fn"
          /\ \E made \in {compile_lambda(NewCompiler(<<>>, env, MaxExpand, <<>>, dbg),
                                         IF pending.n = 0 THEN Nil
                                         ELSE L(<<L(pending.head)>> \o pending.tail))} :
                 comp' = [err |-> made[1].err, func |-> made[2]]
       \* compile_let on the items of the form, and the run of the code up
       \* to its Ret and through it
       \/ /\ pending.op = "let"
          /\ LET RECURSIVE run(_, _)
                 \* k turns of the loop of Routine::run
                 run(st, k) ==
                     IF st[1].status # "run" \/ k = 0 THEN st
                     ELSE IF k = 1 THEN RunStep(st[1], st[2])
                     ELSE Let(run(st, k \div 2), LAMBDA half : run(half, k - k \div 2))
             IN  \E c \in {let_body(
                               let_bind_items(NewCompiler(<<>>, env, MaxExpand, <<>>, dbg),
                                              <<>> \o [i \in 1..pending.n |-> Sym("x")],
                                              pending.parallel),
                               <<IntObj(7)>>)} :
                 \E at \in {run(<<execute(Expression(push(c, OpCode.Ret, Len(c.vars)).codes,
                                                      c.constants,
                                                      push(c, OpCode.Ret, Len(c.vars)).depths),
                                           dbg), env>>,
                                 pending.n + 2)[1]} :
                 \E fin \in {RunStep(at, env)[1]} :
                     comp' = [err |-> c.err,
                              codes |-> SubSeq(c.codes, Len(c.codes) - 1, Len(c.codes)),
                              depth |-> Len(c.vars),
                              at |-> [status |-> at.status, ip |-> at.frame.ip,
                                      depth |-> Len(at.stack),
                                      top |-> IF Len(at.stack) > 0 THEN Top(at.stack)
                                              ELSE Nil],
                              status |-> fin.status,
                              value |-> fin.value]
       \/ /\ pending.op = "closure"
          /\ comp' = make_closure(
                         LispFnNew(<<OpCode.Constant0, OpCode.Ret>>,
                                   <<>> \o [i \in 1..pending.n |-> IntObj(100 + i)],
                                   <<0, 1>>, pending.n % 3, 1, pending.rest),
                         <<>> \o [i \in 1..pending.k |-> IntObj(i)])
    /\ UNCHANGED <<dbg, pending, env, rout, steps, results, refenv, refres>>

SpecVec == InitVec /\ [][NextVec]_vars


\* C13: a jump the compiler wrote without reporting an error has
\* operand_position + 2 + offset at the first byte of an opcode inside the
\* code vector: a forward jump over n bytes at the opcode that follows them,
\* a backward jump at the loop top, never at an operand byte of the jump and
\* never outside the vector.
C13_JumpTargetOnOpcode ==
    LET operand_position ==
            IF pending.op = "jump" THEN pending.k + 1
            ELSE pending.k + pending.n + 1
        \* the displacement written after the opcode, high byte first
        offset == AsI16(comp.codes[2] * 256 + comp.codes[3])
        target == operand_position + 2 + offset
    IN  (phase = "done" /\ pending.op \in {"jump", "back"} /\ comp.err = NoErr) =>
            /\ target \in 0..comp.code_len
            /\ target \notin {operand_position, operand_position + 1}
            /\ pending.op = "jump" => target = comp.code_len
            /\ pending.op = "back" => target = pending.k

\* C14: a jump whose displacement is outside -32768..32767 makes the
\* compilation fail with an error of the compiler, and the displacement
\* written for a jump that compiled is the displacement of the jump.
C14_JumpOverflowIsError ==
    LET displacement ==
            IF pending.op = "jump" THEN pending.n ELSE 0 - (pending.n + 3)
        \* the displacement written after the opcode, high byte first
        written == AsI16(comp.codes[2] * 256 + comp.codes[3])
    IN  (phase = "done" /\ pending.op \in {"jump", "back"}) =>
            /\ displacement \notin -32768..32767 =>
                   (comp.err # NoErr /\ comp.err[1] # "panic")
            /\ comp.err = NoErr => written = displacement


\* C15: the emitters of pool and stack indices report an index above 65535
\* by name and emit nothing for it: const_ref and add_const_lambda fail with
\* ConstOverflow, stack_ref and stack_set with StackSizeOverflow.  An index
\* of at most 65535 is emitted whole, and it is below the length of the pool
\* after the insertion, respectively below the depth of the virtual stack
\* the reference is made in.
C15_IndexOverflowNamed ==
    LET pool == pending.op \in {"const", "lambda"}
        \* the operand of the opcode at the head of bytes, decoded the way
        \* emit_op! and push_op_n2 wrote it: in the opcode, in one byte, or
        \* in two bytes with the high byte first
        EmittedOperand(bytes, b0) ==
            IF bytes[1] - b0 <= 5 THEN bytes[1] - b0
            ELSE IF bytes[1] - b0 = 6 THEN bytes[2]
            ELSE bytes[2] * 256 + bytes[3]
        index == CASE pending.op = "const" -> pending.k - 1
                   [] pending.op = "lambda" -> pending.n
                   [] OTHER -> pending.n - pending.k - 1
        base == CASE pool -> OpCode.Constant0
                  [] pending.op = "ref" -> OpCode.StackRef0
                  [] OTHER -> OpCode.StackSet0
    IN  (phase = "done" /\ pending.op \in {"const", "lambda", "ref", "set"}) =>
            /\ index > 65535 =>
                   /\ comp.err = IF pool THEN <<"ConstOverflow">>
                                 ELSE <<"StackSizeOverflow">>
                   /\ comp.codes = <<>>
            /\ index <= 65535 =>
                   /\ comp.err = NoErr
                   /\ EmittedOperand(comp.codes, base) = index
                   /\ index < (IF pool THEN comp.pool_len ELSE pending.n)

\* a constant that is new to a pool of 65536 entries has been refused
C15_PoolFull ==
    /\ (phase = "done" /\ pending.op = "const")
    /\ pending.n = 65536
    /\ pending.k = pending.n + 1
    /\ comp.err = <<"ConstOverflow">>
    /\ comp.codes = <<>>


\* C16: inserting a constant that is not a list returns the index of the
\* equal entry of the pool when there is one and appends it otherwise; a
\* list is appended as a new entry even when the pool holds an equal list;
\* a lambda is always appended; and the entries the pool had keep their
\* indices.
C16_PoolDeduplication ==
    LET obj == PoolObj(pending.k)
        present == pending.k <= pending.n
        appended == comp.pool_new = <<obj>> /\ comp.pool_len = pending.n + 1
        \* the operand of the opcode at the head of bytes, decoded the way
        \* emit_op! and push_op_n2 wrote it: in the opcode, in one byte, or
        \* in two bytes with the high byte first
        EmittedOperand(bytes, b0) ==
            IF bytes[1] - b0 <= 5 THEN bytes[1] - b0
            ELSE IF bytes[1] - b0 = 6 THEN bytes[2]
            ELSE bytes[2] * 256 + bytes[3]
        index == EmittedOperand(comp.codes, OpCode.Constant0)
    IN  /\ (phase = "done" /\ pending.op = "const") =>
               /\ comp.pool_kept
               /\ IF IsCons(obj) \/ ~present
                  THEN appended /\ (comp.err = NoErr => index = pending.n)
                  ELSE /\ comp.pool_new = <<>>
                       /\ comp.err = NoErr => index = pending.k - 1
        /\ (phase = "done" /\ pending.op = "lambda") =>
               /\ comp.pool_kept
               /\ comp.pool_new = <<<<"fn", DefaultLispFn>>>>
               /\ comp.pool_len = pending.n + 1


(***************************************************************************)
(* Function calls.                                                         *)
(***************************************************************************)
\* C17: a top-level form (head arg...) whose head is not a special form
\* and whose function binding is not a macro compiles to the constant push
\* of the head symbol, the code of the arguments and Call(n) for its n
\* arguments: the head symbol is the first constant and the first opcode
\* pushes it, Call(n) is the opcode before Ret and is emitted at depth
\* n + 1, and the virtual stack holds one value after it.
C17_FuncallLowering ==
    LET form == Head(pending)
        head == SymName(ConsCar(form))
        special == {"lambda", "while", "quote", "function", "progn", "setq",
                    "defvar", "cond", "let", "let*", "if"}
        n == Len(Items(ConsCdr(form)))
        ret == Len(comp.codes)
    IN  (/\ phase = "run" /\ steps = 0
         /\ IsCons(form) /\ IsSym(ConsCar(form))
         /\ head \notin special
         /\ ~IsMacroCell(symbol_function(env, head))) =>
            /\ comp.constants # <<>> /\ comp.constants[1] = Sym(head)
            /\ comp.codes[1] = OpCode.Constant0
            /\ ret >= 3
            /\ comp.codes[ret - 1] = OpCode.Call0 + n
            /\ comp.depths[ret - 1] = n + 1
            /\ comp.depths[ret] = 1


(***************************************************************************)
(* cond and while, compiled and run.                                       *)
(***************************************************************************)
\* C18: a top-level cond returns the value the direct evaluation of the
\* form gives, with the global variables that evaluation leaves: the value
\* of the first non-nil test for a single-form clause, of the last body form
\* for a longer clause, nil when no test is non-nil, for (cond) and for a
\* last clause (); and one value is on the stack when it returns.
C18_CondSemantics ==
    LET form == Head(pending)
        expected ==
            CASE pending = Programs[12] -> IntObj(4)
              [] pending = Programs[13] -> IntObj(1)
              [] pending = Tail(Programs[40]) -> IntObj(7)
              [] OTHER -> Nil
    IN  (phase = "run" /\ IsCons(form) /\ ConsCar(form) = Sym("cond")) =>
            /\ Returned =>
                   /\ rout.status = "done"
                   /\ rout.value = expected
                   /\ refres.err = NoErr /\ refres.value = expected
                   /\ env.vars = refres.env.vars
            /\ (AtOpcode /\ NextOp = OpCode.Ret) => Len(rout.stack) = 1

\* C19: a top-level while whose test becomes nil returns nil with the
\* global variables its direct evaluation leaves; the operand stack has the
\* depth the compiler recorded whenever the loop head is reached, and one
\* value is on the stack when the loop returns.
C19_WhileSemantics ==
    LET form == Head(pending)
    IN  (/\ phase = "run" /\ IsCons(form) /\ ConsCar(form) = Sym("while")
         /\ pending # Programs[29]) =>
            /\ Returned =>
                   /\ rout.status = "done"
                   /\ rout.value = Nil
                   /\ refres.err = NoErr /\ refres.value = Nil
                   /\ env.vars = refres.env.vars
            /\ (AtOpcode /\ rout.frame.ip = 0) => Len(rout.stack) = 0
            /\ (AtOpcode /\ NextOp = OpCode.Ret) => Len(rout.stack) = 1


(***************************************************************************)
(* The jump opcodes.                                                       *)
(***************************************************************************)
\* a routine about to dispatch one jump opcode: the code is the opcode, its
\* two operand bytes and five Ret, the stack holds up to two values
InitJump ==
    /\ dbg \in BOOLEAN
    /\ \E op \in JumpOps : \E first \in {0, 1, 253, 255} : \E second \in {0, 1, 255} :
       \E stack \in {<<>>, <<Nil>>, <<IntObj(1)>>, <<IntObj(1), Nil>>, <<Nil, IntObj(1)>>} :
           rout = NewRoutine(stack,
                             Expression(<<op, first, second>>
                                            \o [i \in 1..5 |-> OpCode.Ret],
                                        <<>>,
                                        <<Len(stack), NoDepth, NoDepth>>
                                            \o [i \in 1..5 |-> Len(stack)]),
                             0, dbg)
    /\ pending = <<>>
    /\ env = DefaultEnv
    /\ phase = "run"
    /\ comp = NewCompiler(<<>>, DefaultEnv, 0, <<>>, FALSE)
    /\ steps = 0
    /\ results = <<>>
    /\ refenv = DefaultEnv
    /\ refres = RR(NoErr, Nil, DefaultEnv, <<>>)

\* the routine runs its jump opcodes
SpecJump == InitJump /\ [][StepJump]_vars

\* C20: a jump opcode dispatched with its two operand bytes inside the code
\* and, unless it is Jump, a value on the stack.  jumped: the instruction
\* pointer is past the operand bytes plus the offset read from them, or the
\* debug assertion of Ip::jump stopped the routine after the move; fell: it
\* is past the operand bytes.  Jump jumps and leaves the stack alone;
\* JumpNil and JumpNotNil pop the top and jump when it was nil (non-nil),
\* fall through otherwise; JumpNilElsePop and JumpNotNilElsePop jump with
\* the stack unchanged when the top is nil (non-nil), pop it and fall
\* through otherwise.
C20_JumpOpcodes ==
    [][ LET op == NextOp
            offset == AsI16(Operand(rout.frame, op))
            past == rout.frame.ip + 3
            jumped == \/ rout'.status = "run" /\ rout'.frame.ip = past + offset
                      \/ rout'.status = "panic"
                         /\ rout' = PanicR(rout', "jump out of range")
            fell == rout'.status = "run" /\ rout'.frame.ip = past
            nil == Top(rout.stack) = Nil
            popped == rout'.stack = Pop(rout.stack)
            kept == rout'.stack = rout.stack
        IN  (/\ StepJump
             /\ InRange(rout.frame, 3)
             /\ op # OpCode.Jump => Len(rout.stack) > 0) =>
                CASE op = OpCode.Jump -> jumped /\ kept
                  [] op = OpCode.JumpNil ->
                         popped /\ (IF nil THEN jumped ELSE fell)
                  [] op = OpCode.JumpNotNil ->
                         popped /\ (IF nil THEN fell ELSE jumped)
                  [] op = OpCode.JumpNilElsePop ->
                         IF nil THEN jumped /\ kept ELSE fell /\ popped
                  [] op = OpCode.JumpNotNilElsePop ->
                         IF nil THEN fell /\ popped ELSE jumped /\ kept
      ]_vars

\* JumpNotNil has jumped over one Ret on a non-nil top and popped it
C20_JumpTaken ==
    /\ phase = "run"
    /\ steps = 1
    /\ rout.status = "run"
    /\ rout.frame.code.op_codes[1] = OpCode.JumpNotNil
    /\ rout.frame.ip = 4
    /\ rout.stack = <<Nil>>


(***************************************************************************)
(* Frames of compiled functions.                                           *)
(***************************************************************************)
\* C21: a Call that enters a compiled function saves the caller's frame
\* with its instruction pointer after the Call; a Ret executed while outer
\* frames exist puts the return value at stack[frame.start], cuts the stack
\* to frame.start + 1 and restores the frame saved last; and no step taken
\* inside the frame of a called function changes a stack slot below
\* frame.start.
C21_NestedReturn ==
    [][ /\ (StepCall /\ EnteredFrame) =>
               rout'.call_frames =
                   Append(rout.call_frames,
                          [rout.frame EXCEPT !.ip = @ + 1 + OperandLen(NextOp)])
        /\ (StepRet /\ Len(rout.call_frames) > 0 /\ rout'.status = "run") =>
               /\ rout'.stack = Append(SubSeq(rout.stack, 1, rout.frame.start),
                                       Top(rout.stack))
               /\ rout'.frame = rout.call_frames[Len(rout.call_frames)]
               /\ rout'.call_frames = Pop(rout.call_frames)
        /\ (phase = "run" /\ steps' = steps + 1 /\ Len(rout.call_frames) > 0) =>
               /\ Len(rout'.stack) >= rout.frame.start
               /\ \A i \in 1..rout.frame.start : rout'.stack[i] = rout.stack[i]
      ]_vars


(***************************************************************************)
(* Errors at run time.                                                     *)
(***************************************************************************)
\* C22: a VarRef of a symbol without a global value ends the run with
\* VoidVariable(symbol) and pushes nothing; a Call whose function slot is a
\* symbol without a function binding ends it with VoidFunction(symbol); a
\* Call of a symbol whose function cell is (macro . f) ends it with the
\* error of a macro called at run time.
C22_MissingBindings ==
    [][ LET var == get_const(rout.frame, Operand(rout.frame, NextOp))
            callee == ref_at(rout.stack, CallArgCount)
        IN  /\ (/\ StepVar /\ Family(NextOp) = OpCode.VarRef0
                /\ Operand(rout.frame, NextOp) < Len(rout.frame.code.constants)
                /\ IsSym(var) /\ env.vars[SymName(var)] = Unbound) =>
                   /\ rout'.status = "err"
                   /\ rout'.err = <<"VoidVariable", SymName(var)>>
                   /\ rout'.stack = rout.stack
            /\ (/\ StepCall /\ CallArgCount < Len(rout.stack) /\ IsSym(callee)
                /\ env.funcs[SymName(callee)] = Unbound) =>
                   /\ rout'.status = "err"
                   /\ rout'.err = <<"VoidFunction", SymName(callee)>>
            /\ (/\ StepCall /\ CallArgCount < Len(rout.stack) /\ IsSym(callee)
                /\ IsMacroCell(env.funcs[SymName(callee)])) =>
                   /\ rout'.status = "err"
                   /\ rout'.err = <<"Attempt to call macro at runtime", SymName(callee)>>
      ]_vars

\* the read of bar, which has no value, has failed
C22_VoidVariable ==
    /\ Returned
    /\ pending = Programs[45]
    /\ rout.status = "err"
    /\ rout.err = <<"VoidVariable", "bar">>


(***************************************************************************)
(* A caller that goes on to the next form after eval returned an error.    *)
(***************************************************************************)
\* execute returned Err: eval hands it to its caller, who keeps the
\* Environment it lent and goes on with the next form
Recover ==
    /\ phase = "run"
    /\ rout.status = "err"
    /\ results' = Append(results, rout.err)
    /\ pending' = Tail(pending)
    /\ refenv' = refres.env
    /\ phase' = "read"
    /\ UNCHANGED <<dbg, env, comp, rout, steps, refres>>

\* forms that fail at run time, followed by forms that read what they left
InitErr ==
    /\ Init
    /\ pending \in {Programs[i] : i \in {19, 24, 45, 46, 47, 48}}

SpecErr == InitErr /\ [][Compile \/ Dispatch(TRUE) \/ Finish \/ Recover]_vars

\* C23: a run-time error ends the run of the current form and is what the
\* caller gets; the step that fails and the return of the error undo no
\* global variable or function binding; the next form is run by a routine
\* with an empty operand stack and no outer frames, at the start of its code
C23_ErrorPolicy ==
    [][ /\ (phase = "run" /\ rout.status = "run" /\ rout'.status = "err") =>
               /\ env'.vars = env.vars
               /\ env'.funcs = env.funcs
        /\ (phase = "run" /\ rout.status = "err") =>
               /\ rout' = rout
               /\ env' = env
               /\ steps' = steps
               /\ results' = Append(results, rout.err)
               /\ pending' = Tail(pending)
        /\ (phase = "read" /\ phase' = "run") =>
               /\ rout'.stack = <<>>
               /\ rout'.call_frames = <<>>
               /\ rout'.frame.ip = 0
               /\ rout'.frame.start = 0
               /\ rout'.status = "run"
      ]_vars

\* (+ 1 (f 3)) failed inside the frame of f after f set foo; the next form,
\* foo, has returned 3
C23_BindingSurvives ==
    /\ Returned
    /\ pending = SubSeq(Programs[47], 3, 5)
    /\ results = <<Sym("f"), <<"VoidVariable", "bar">>>>
    /\ Len(rout.call_frames) = 0
    /\ rout.status = "done"
    /\ rout.value = IntObj(3)


(***************************************************************************)
(* Malformed special forms.                                                *)
(***************************************************************************)
\* C24: the compiler rejects a malformed form with the named error and
\* execute is not started.  With k the number of arguments of the form:
\* quote and function with k # 1 give ArgCount(1, k); if with k < 2 gives
\* ArgCount(2, k); let, let* and while without arguments give
\* ArgCount(1, 0); a let binding that is neither a symbol nor a cons, after
\* well-formed bindings, gives TypeError(cons, found); a let binding
\* (sym v1 .. vk) with k >= 2 gives LetValueCount(k); setq with n arguments,
\* n odd, gives ArgCount(n + 1, n); a head that is no symbol gives
\* TypeError(symbol, found); an argument list that ends in a tail which is
\* neither nil nor a cons gives TypeError(list, found)
C24_MalformedForms ==
    (phase # "read" /\ pending # <<>> /\ IsCons(Head(pending))) =>
        LET form == Head(pending)
            head == ConsCar(form)
            args == ConsCdr(form)
            items == Items(args)
            k == Len(items)
            proper == IsListObj(args) /\ count(items) # -1
            is(names) == IsSym(head) /\ SymName(head) \in names
            bindings == Items(items[1])
            simple(b) == \/ IsSym(b)
                         \/ /\ IsCons(b) /\ IsSym(ConsCar(b))
                            /\ IsListObj(ConsCdr(b)) /\ count(Items(ConsCdr(b))) # -1
                            /\ Len(Items(ConsCdr(b))) <= 1
                            /\ \A i \in 1..Len(Items(ConsCdr(b))) :
                                   Tag(Items(ConsCdr(b))[i]) = "int"
            first_bad == CHOOSE i \in 1..Len(bindings) :
                             ~simple(bindings[i]) /\ \A j \in 1..(i - 1) : simple(bindings[j])
            bad == bindings[first_bad]
            let_case == /\ is({"let", "let*"}) /\ proper /\ k > 0
                        /\ IsListObj(items[1]) /\ count(bindings) # -1
                        /\ \E i \in 1..Len(bindings) : ~simple(bindings[i])
            tail == IF IsListObj(args) THEN items[k][2] ELSE args
        IN  /\ (is({"quote", "function"}) /\ proper /\ k # 1) => comp.err = ArgCount(1, k)
            /\ (is({"if"}) /\ proper /\ k < 2) => comp.err = ArgCount(2, k)
            /\ (is({"let", "let*", "while"}) /\ proper /\ k = 0) => comp.err = ArgCount(1, 0)
            /\ (let_case /\ ~IsSym(bad) /\ ~IsCons(bad)) => comp.err = TypeError("cons", bad)
            /\ (/\ let_case /\ IsCons(bad) /\ IsSym(ConsCar(bad))
                /\ IsListObj(ConsCdr(bad)) /\ count(Items(ConsCdr(bad))) # -1
                /\ Tag(Items(ConsCdr(bad))[1]) = "int") =>
                   comp.err = <<"LetValueCount", Len(Items(ConsCdr(bad)))>>
            /\ (/\ is({"setq"}) /\ proper /\ k % 2 = 1
                /\ \A i \in 1..k : IF i % 2 = 1 THEN IsSym(items[i])
                                               ELSE Tag(items[i]) = "int") =>
                   comp.err = ArgCount(k + 1, k)
            /\ ~IsSym(head) => comp.err = TypeError("symbol", head)
            /\ (IsSym(head) /\ ~proper) => comp.err = TypeError("list", tail)
            /\ Failed(comp) =>
                   /\ phase = "halt"
                   /\ rout = NewRoutine(<<>>, Expression(<<>>, <<>>, <<>>), 0, FALSE)


(***************************************************************************)
(* Parameter lists and the default function.                               *)
(***************************************************************************)
\* C25: for every parameter list of symbols in which at most one token
\* follows &rest, parse_fn_binding returns; required is the number of names
\* before the first &optional, optional the number of names after it, both
\* counted before &rest; rest is true exactly when a symbol follows &rest;
\* the names are the counted names in order, then the rest name, so their
\* number is required + optional + (1 if rest).  A token after the rest
\* name is an error, and a token that is no symbol, up to the rest name, is
\* TypeError(symbol, found)
C25_ParameterParsing ==
    (phase = "done" /\ pending.op = "params") =>
        LET items == pending.head \o [i \in 1..pending.n |-> Sym("p")] \o pending.tail
            n == Len(items)
            is(i, s) == items[i] = Sym(s)
            rests == {i \in 1..n : is(i, "&rest")}
            r == IF rests = {} THEN n + 1 ELSE CHOOSE i \in rests : \A j \in rests : i <= j
            opts == {i \in 1..(r - 1) : is(i, "&optional")}
            o == IF opts = {} THEN r ELSE CHOOSE i \in opts : \A j \in opts : i <= j
            name(i) == IsSym(items[i]) /\ ~is(i, "&optional")
            nonsyms == {i \in 1..n : ~IsSym(items[i]) /\ i <= r + 1}
            has_rest == r + 1 <= n
            expected == SelectSeq(SubSeq(items, 1, r - 1), LAMBDA t : t # Sym("&optional"))
                            \o (IF has_rest THEN <<items[r + 1]>> ELSE <<>>)
        IN  /\ (nonsyms = {} /\ r + 2 > n) =>
                   /\ comp.err = NoErr
                   /\ comp.required = Cardinality({i \in 1..(o - 1) : name(i)})
                   /\ comp.optional = Cardinality({i \in (o + 1)..(r - 1) : name(i)})
                   /\ comp.rest = has_rest
                   /\ comp.args.len = comp.required + comp.optional
                                          + (IF comp.rest THEN 1 ELSE 0)
                   /\ comp.args.len = Len(expected)
                   /\ \A i \in 1..Len(comp.args.names) :
                          \/ /\ i <= MaxTokens
                             /\ Sym(comp.args.names[i]) = expected[i]
                          \/ /\ i = Len(comp.args.names)
                             /\ Sym(comp.args.names[i]) = expected[Len(expected)]
            /\ (nonsyms = {} /\ r + 2 <= n) => comp.err # NoErr
            /\ nonsyms # {} =>
                   comp.err = TypeError("symbol",
                                        items[CHOOSE i \in nonsyms : \A j \in nonsyms : i <= j])
            /\ (\E i \in 1..n : ~IsSym(items[i])) => comp.err # NoErr

C27_MakeClosure ==
    (phase = "done" /\ pending.op = "closure") =>
        LET k == pending.k
            arity == FnArgs(pending.n % 3, 1, pending.rest)
        IN  /\ comp.err # NoErr <=> (k > 5 \/ k > pending.n)
            /\ comp.err = NoErr =>
                   /\ Len(comp.func.body.constants) = pending.n
                   /\ \A i \in 1..pending.n :
                          comp.func.body.constants[i] =
                              IF i <= k THEN IntObj(i) ELSE IntObj(100 + i)
                   /\ comp.func.body.op_codes = <<OpCode.Constant0, OpCode.Ret>>
                   /\ comp.func.args = arity
            /\ comp.prototype.body.op_codes = <<OpCode.Constant0, OpCode.Ret>>
            /\ comp.prototype.args = arity
            /\ Len(comp.prototype.body.constants) = pending.n
            /\ \A i \in 1..pending.n : comp.prototype.body.constants[i] = IntObj(100 + i)

\* three values have been captured in a prototype with seven constants
C27_Captured ==
    /\ phase = "done"
    /\ pending.op = "closure" /\ pending.n = 7 /\ pending.k = 3
    /\ comp.err = NoErr
    /\ comp.func.body.constants[3] = IntObj(3)
    /\ comp.func.body.constants[4] = IntObj(104)


(***************************************************************************)
(* Cons cells in the heap: mutation, equal and the list iterators.         *)
(* Here env is the heap, a function from the cells to their car and cdr;   *)
(* an object is nil, an integer or <<"cell", c>>, the pointer to cell c.   *)
(* pending is the call in progress, rout the state of equal or of the      *)
(* iterator, results what setcar and setcdr returned or what the iterator  *)
(* yielded, steps the number of mutations done.                            *)
(***************************************************************************)
\* the number of cons cells
MaxCells == 2
\* the most calls of setcar and setcdr
MaxMutations == 2

\* the cells after (cons c nil) for each c, after (list 1 .. n), or after
\* (cons 0 nil) for each c
InitCons ==
    /\ dbg = FALSE
    /\ \/ env = [c \in 1..MaxCells |-> [car |-> IntObj(c), cdr |-> Nil]]
       \/ env = [c \in 1..MaxCells |->
                    [car |-> IntObj(c),
                     cdr |-> IF c < MaxCells THEN <<"cell", c + 1>> ELSE Nil]]
       \/ env = [c \in 1..MaxCells |-> [car |-> IntObj(0), cdr |-> Nil]]
    /\ pending = [op |-> "none"]
    /\ phase = "idle"
    /\ comp = NewCompiler(<<>>, DefaultEnv, 0, <<>>, FALSE)
    /\ rout = NewRoutine(<<>>, Expression(<<>>, <<>>, <<>>), 0, FALSE)
    /\ steps = 0
    /\ results = <<>>
    /\ refenv = DefaultEnv
    /\ refres = RR(NoErr, Nil, DefaultEnv, <<>>)

\* setcar that stores the object in the cdr as well
Mutate_both ==
    /\ phase = "idle"
    /\ steps < MaxMutations
    /\ \E c \in 1..MaxCells :
       \E v \in {Nil, IntObj(0)} \cup {<<"cell", d>> : d \in 1..MaxCells} :
           \/ /\ env' = [env EXCEPT ![c].car = v, ![c].cdr = v]
              /\ results' = <<v>>
              /\ pending' = [op |-> "setcar", cell |-> c, value |-> v]
           \/ /\ env' = [env EXCEPT ![c].cdr = v]
              /\ results' = <<v>>
              /\ pending' = [op |-> "setcdr", cell |-> c, value |-> v]
    /\ steps' = steps + 1
    /\ UNCHANGED <<dbg, phase, comp, rout, refenv, refres>>

\* setcar and setcdr with Cons::set_car and Cons::set_cdr
Mutate ==
    /\ phase = "idle"
    /\ steps < MaxMutations
    /\ \E c \in 1..MaxCells :
       \E v \in {Nil, IntObj(0)} \cup {<<"cell", d>> : d \in 1..MaxCells} :
           \/ /\ env' = [env EXCEPT ![c].car = v]
              /\ results' = <<v>>
              /\ pending' = [op |-> "setcar", cell |-> c, value |-> v]
           \/ /\ env' = [env EXCEPT ![c].cdr = v]
              /\ results' = <<v>>
              /\ pending' = [op |-> "setcdr", cell |-> c, value |-> v]
    /\ steps' = steps + 1
    /\ UNCHANGED <<dbg, phase, comp, rout, refenv, refres>>

\* equal: obj1 == obj2, which on two conses is Cons::eq,
\* car == car && cdr == cdr.  rout.frames are the calls of Cons::eq in
\* progress, each at the comparison of its cars or of its cdrs; rout.call
\* is the pair whose comparison starts, rout.ret what the last comparison
\* returned.  Among MaxCells cells a recursion with more than MaxCells
\* squared frames compares a pair inside the comparison of the same pair
\* and goes on until the host stack is exhausted
Equal ==
    LET MaxDepth == MaxCells * MaxCells
        IsCell(o) == o[1] = "cell"
        top == rout.frames[Len(rout.frames)]
    IN  \/ /\ phase = "idle"
           /\ \E c \in 1..MaxCells :
              \E y \in {Nil, IntObj(0)} \cup {<<"cell", d>> : d \in 1..MaxCells} :
                  /\ pending' = [op |-> "equal", a |-> <<"cell", c>>, b |-> y]
                  /\ rout' = [frames |-> <<>>, call |-> <<<<"cell", c>>, y>>,
                              ret |-> "none", status |-> "run"]
           /\ phase' = "equal"
           /\ UNCHANGED <<dbg, env, comp, steps, results, refenv, refres>>
        \/ /\ phase = "equal"
           /\ rout.status = "run"
           /\ IF rout.call # <<>>
              THEN \* obj1 == obj2 is called
                   /\ phase' = phase
                   /\ IF IsCell(rout.call[1]) /\ IsCell(rout.call[2])
                      THEN IF Len(rout.frames) > MaxDepth
                           THEN rout' = [rout EXCEPT !.status = "overflow"]
                           ELSE rout' = [rout EXCEPT
                                    !.frames = Append(@, [a |-> rout.call[1][2],
                                                          b |-> rout.call[2][2],
                                                          at |-> "car"]),
                                    !.call = <<env[rout.call[1][2]].car,
                                               env[rout.call[2][2]].car>>]
                      ELSE rout' = [rout EXCEPT
                                       !.call = <<>>,
                                       !.ret = IF rout.call[1] = rout.call[2]
                                               THEN "true" ELSE "false"]
              ELSE IF rout.frames = <<>>
              THEN \* equal returns
                   /\ rout' = [rout EXCEPT !.status = "done"]
                   /\ phase' = "done"
              ELSE /\ phase' = phase
                   /\ IF top.at = "car" /\ rout.ret = "true"
                      THEN rout' = [rout EXCEPT
                                       !.frames[Len(rout.frames)].at = "cdr",
                                       !.call = <<env[top.a].cdr, env[top.b].cdr>>,
                                       !.ret = "none"]
                      ELSE rout' = [rout EXCEPT !.frames = Pop(@)]
           /\ UNCHANGED <<dbg, pending, env, comp, steps, results, refenv, refres>>

\* as_list(..) or conses(..), then the calls of next that count() makes until
\* next returns None.  rout.cons is the cell the iterator is at, 0 for
\* None; results are the items yielded, of which only the first
\* MaxCells + 2 are kept
Iterate ==
    \/ /\ phase = "idle"
       /\ \E kind \in {"elem", "cons"} :
          \E x \in {Nil, IntObj(0)} \cup {<<"cell", d>> : d \in 1..MaxCells} :
              /\ pending' = [op |-> "iter", kind |-> kind, from |-> x]
              /\ IF x[1] = "cell"
                 THEN /\ rout' = [cons |-> x[2], ended |-> FALSE]
                      /\ results' = <<>>
                 ELSE IF x = Nil
                 THEN /\ rout' = [cons |-> 0, ended |-> FALSE]
                      /\ results' = <<>>
                 ELSE /\ rout' = [cons |-> 0, ended |-> TRUE]
                      /\ results' = <<TypeError("list", x)>>
       /\ phase' = "iter"
       /\ UNCHANGED <<dbg, env, comp, steps, refenv, refres>>
    \/ /\ phase = "iter"
       /\ ~rout.ended
       /\ LET cdr == env[rout.cons].cdr
              item == IF cdr[1] \notin {"cell", "nil"}
                      THEN <<"Found non-nil cdr at end of list">>
                      ELSE IF pending.kind = "elem" THEN env[rout.cons].car
                      ELSE <<"cell", rout.cons>>
          IN  IF rout.cons = 0
              THEN /\ rout' = [rout EXCEPT !.ended = TRUE]
                   /\ results' = results
              ELSE /\ rout' = [rout EXCEPT !.cons = IF cdr[1] = "cell" THEN cdr[2]
                                                    ELSE IF cdr = Nil THEN 0
                                                    ELSE @]
                   /\ results' = IF Len(results) < MaxCells + 2
                                 THEN Append(results, item) ELSE results
       /\ UNCHANGED <<dbg, pending, env, phase, comp, steps, refenv, refres>>

SpecCons ==
    /\ InitCons
    /\ [][Mutate \/ Equal \/ Iterate]_vars
    /\ WF_vars(Equal)
    /\ WF_vars(Iterate)

\* C28: equal returns on every pair of objects, also on cells that
\* setcar and setcdr have linked into a cycle
C28_EqualTerminates == (phase = "equal") ~> (phase = "done")

\* C29: over a chain of n cells that ends in nil, ElemIter yields the n
\* cars and ConsIter the n cells, in order, and then next returns None;
\* over a chain that ends in an object that is neither nil nor a cons the
\* iterator yields one Err and nothing after it, so that count() returns
C29_ListIteration ==
    (phase = "iter" /\ pending.from # IntObj(0)) =>
        LET IsCell(o) == o[1] = "cell"
            \* walk[i]: what i cdrs from the start lead to
            walk[i \in 0..MaxCells] ==
                IF i = 0 THEN pending.from
                ELSE Let(walk[i - 1], LAMBDA at : IF IsCell(at) THEN env[at[2]].cdr ELSE at)
            n == Cardinality({i \in 0..MaxCells : IsCell(walk[i])})
            tail == walk[MaxCells]
            expected == [i \in 1..n |-> IF pending.kind = "elem" THEN env[walk[i - 1][2]].car
                                        ELSE walk[i - 1]]
            IsErr(item) == item[1] = "Found non-nil cdr at end of list"
        IN  /\ tail = Nil =>
                   /\ Len(results) <= n
                   /\ \A i \in 1..Len(results) : results[i] = expected[i]
                   /\ rout.ended => Len(results) = n
            /\ tail[1] = "int" =>
                   /\ \A i \in 1..Len(results) : IsErr(results[i]) => i = Len(results)
                   /\ \A i \in 1..Len(results) : ~IsErr(results[i]) => results[i] = expected[i]
                   /\ rout.ended => (Len(results) > 0 /\ IsErr(results[Len(results)]))

\* C30: setcar(c, v) stores v in the car of c and returns v; the cdr of c
\* and every other cell are as before, and every cell that holds c reads
\* the new car through it; symmetrically for setcdr.  No other operation
\* changes a cell, so that car and cdr hold what was last stored in them
C30_ConsMutation ==
    [][ LET c == pending'.cell
            v == pending'.value
            holders == {d \in 1..MaxCells : env'[d].car = <<"cell", c>>
                                            \/ env'[d].cdr = <<"cell", c>>}
        IN  /\ (phase = "idle" /\ steps' = steps + 1) =>
                   /\ pending'.op \in {"setcar", "setcdr"}
                   /\ results' = <<v>>
                   /\ pending'.op = "setcar" =>
                          /\ env'[c].car = v
                          /\ env'[c].cdr = env[c].cdr
                          /\ \A d \in holders :
                                 \/ env'[d].car # <<"cell", c>>
                                 \/ env'[env'[d].car[2]].car = v
                   /\ pending'.op = "setcdr" =>
                          /\ env'[c].cdr = v
                          /\ env'[c].car = env[c].car
                          /\ \A d \in holders :
                                 \/ env'[d].cdr # <<"cell", c>>
                                 \/ env'[env'[d].cdr[2]].cdr = v
                   /\ \A d \in (1..MaxCells) \ {c} : env'[d] = env[d]
            /\ steps' = steps => env' = env
      ]_vars

\* the car of a cell that another cell points to has been replaced after an
\* earlier mutation
C30_SharedCell ==
    /\ phase = "idle"
    /\ steps = 2
    /\ pending.op = "setcar"
    /\ env[pending.cell].car = pending.value
    /\ \E d \in (1..MaxCells) \ {pending.cell} : env[d].cdr = <<"cell", pending.cell>>

\* C31: the then form and the else forms of an if are compiled against the
\* same virtual stack, the one before the if: in (let ((x V)) (if T A B))
\* a reference to x is StackRef 0, emitted one slot above the binding, in
\* the else form as in the then form; and when (if ...) is the whole form,
\* the virtual stack holds one slot after it
C31_IfBranchStacks ==
    (phase = "run" /\ steps = 0 /\ IsCons(Head(pending))) =>
        LET form == Items(Head(pending))
            IsIf(o) == IsCons(o) /\ Items(o)[1] = Sym("if")
            refs == {i \in 1..Len(comp.codes) :
                        /\ comp.depths[i] # NoDepth
                        /\ comp.codes[i] \in OpCode.StackRef0..(OpCode.StackRef0 + 5)}
        IN  \* the Ret that ends the form is emitted one slot above the empty stack
            /\ IsIf(Head(pending)) => comp.depths[Len(comp.codes)] = 1
            /\ (form[1] = Sym("let") /\ Len(form) = 3 /\ IsIf(form[3])
                  /\ form[2] = L(<<L(<<Sym("x"), IntObj(5)>>)>>)) =>
                   \A i \in refs : /\ comp.codes[i] = OpCode.StackRef0
                                   /\ comp.depths[i] = 1

\* C32: a lambda body is compiled by a compiler of its own: its virtual
\* stack starts as the parameter names, every StackRef stays inside it,
\* every Constant and VarRef indexes the function's own pool, and the
\* function is the one the lambda form gives outside any let, so that a
\* name bound by an enclosing let is a global VarRef in the body; the
\* enclosing form gets every function as a constant of its own, equal
\* functions included
C32_LambdaScope ==
    (phase = "run" /\ steps = 0 /\ IsCons(Head(pending))) =>
        LET form == Items(Head(pending))
            IsLambda(o) == IsCons(o) /\ Items(o)[1] = Sym("lambda")
            Fns(pool) == {pool[i][2] : i \in {j \in 1..Len(pool) : pool[j][1] = "fn"}}
            outer == Fns(comp.constants)
            all == outer \cup UNION {Fns(f.body.constants) : f \in outer}
            params(f) == f.args.required + f.args.optional + (IF f.args.rest THEN 1 ELSE 0)
            Own(f, i) ==
                LET op == f.body.op_codes[i]
                    d == f.body.depths[i]
                    pool == f.body.constants
                IN  /\ op \in OpCode.StackRef0..(OpCode.StackRef0 + 5) =>
                           op - OpCode.StackRef0 < d
                    /\ op \in OpCode.Constant0..(OpCode.Constant0 + 5) =>
                           op - OpCode.Constant0 < Len(pool)
                    /\ op \in OpCode.VarRef0..(OpCode.VarRef0 + 5) =>
                           /\ op - OpCode.VarRef0 < Len(pool)
                           /\ IsSym(pool[op - OpCode.VarRef0 + 1])
        IN  /\ \A f \in all :
                   /\ Len(f.body.op_codes) > 0 => f.body.depths[1] = params(f)
                   /\ \A i \in 1..Len(f.body.op_codes) :
                          f.body.depths[i] # NoDepth => Own(f, i)
            /\ (form[1] = Sym("let") /\ Len(form) = 3 /\ IsLambda(form[3])) =>
                   /\ comp.constants[Len(comp.constants)] =
                          <<"fn", compile_lambda(NewCompiler(<<>>, env, MaxExpand, <<>>, dbg),
                                                 ConsCdr(form[3]))[2]>>
                   /\ \A f \in outer : \A i \in 1..Len(f.body.op_codes) :
                          (/\ f.body.op_codes[i] = OpCode.StackRef0
                           /\ f.body.depths[i] # NoDepth) =>
                              Sym("x") \in {Items(Items(form[3])[2])[k] :
                                               k \in 1..Len(Items(Items(form[3])[2]))}
            /\ (form[1] = Sym("progn") /\ \A k \in 2..Len(form) : IsLambda(form[k])) =>
                   /\ Len(comp.constants) = Len(form) - 1
                   /\ \A k \in 1..Len(comp.constants) : comp.constants[k][1] = "fn"

\* (let ((x 1)) (lambda () x)) is compiled: the body reads x as the global x
C32_EnclosingName ==
    /\ phase = "run"
    /\ steps = 0
    /\ Head(pending) = L(<<Sym("let"), L(<<L(<<Sym("x"), IntObj(1)>>)>>),
                          L(<<Sym("lambda"), Nil, Sym("x")>>)>>)
    /\ comp.constants[2][1] = "fn"
    /\ comp.constants[2][2].body.op_codes = <<OpCode.VarRef0, OpCode.Ret>>
    /\ comp.constants[2][2].body.constants = <<Sym("x")>>

\* C33: macro_callstack is empty whenever compile has returned, with a
\* function or with an error; after a form whose compilation failed for
\* another reason than RecursiveMacro, compiling the same form again in the
\* environment it left is not refused with RecursiveMacro
C33_MacroStackBalanced ==
    /\ env.macro_callstack = <<>>
    /\ (phase = "halt" /\ Failed(comp) /\ comp.err # <<"RecursiveMacro">>) =>
           compile(Head(pending), env, dbg).err # <<"RecursiveMacro">>

\* C34: for a let or let* with k bindings that the compiler accepts, the
\* form ends in DiscardNKeepTOS with operand k, the virtual stack holds one
\* slot after it, and when the code has run up to the Ret that follows, the
\* operand stack holds the value of the body and nothing else
C34_LetDiscardsBindings ==
    (phase = "done" /\ pending.op = "let" /\ comp.err = NoErr) =>
        /\ comp.codes = <<OpCode.DiscardNKeepTOS, pending.n>>
        /\ comp.depth = 1
        /\ comp.at.status = "run"
        /\ comp.at.depth = 1
        /\ comp.at.top = IntObj(7)

\* C35: a Call 0 of a subroutine that takes no filled argument passes the
\* subroutine the empty slice and puts its result in the function slot:
\* the routine goes on, the stack is as deep as before and the slots below
\* the function slot are untouched
C35_ZeroArgSubr ==
    [][ (/\ StepCall
         /\ Callee[1] = "SubrFn"
         /\ CallArgCount = 0
         /\ CalleeArgs.required + CalleeArgs.optional = 0) =>
            /\ rout'.status = "run"
            /\ Len(rout'.stack) = Len(rout.stack)
            /\ Top(rout'.stack) = ApplySubr(Callee[2][2], <<>>, env).value
            /\ SubSeq(rout'.stack, 1, Len(rout.stack) - 1)
                   = SubSeq(rout.stack, 1, Len(rout.stack) - 1)
      ]_vars


(***************************************************************************)
(* Lists in the heap: delq and delete, plist-get and the streaming         *)
(* iterator.  env is the heap as above; pending is the last call with the  *)
(* list the next call is made on, refenv the heap before the last call,    *)
(* results what it returned or what next() returned so far, steps the      *)
(* number of calls of delq and delete, rout the ElemStreamIter.            *)
(***************************************************************************)
\* the most elements of the list
MaxList == 4
\* the most calls of delq and delete
MaxDeletes == 1

\* the objects a list holds: two symbols and the two cells after the cells
\* of the list, each of them the list (1), which are equal and not eq
ListElems == {Sym("a"), Sym("b"), <<"cell", MaxList + 1>>, <<"cell", MaxList + 2>>}

\* the heap after (list e1 .. en), cells 1 to n, for each n up to MaxList
InitList ==
    /\ dbg = FALSE
    /\ \E n \in 0..MaxList : \E elems \in [1..n -> ListElems] :
           /\ env = [c \in 1..MaxList + 2 |->
                        IF c <= n
                        THEN [car |-> elems[c],
                              cdr |-> IF c < n THEN <<"cell", c + 1>> ELSE Nil]
                        ELSE IF c > MaxList
                        THEN [car |-> IntObj(1), cdr |-> Nil]
                        ELSE [car |-> Nil, cdr |-> Nil]]
           /\ pending = [op |-> "none", list |-> IF n = 0 THEN Nil ELSE <<"cell", 1>>]
           /\ refenv = env
    /\ phase = "idle"
    /\ comp = NewCompiler(<<>>, DefaultEnv, 0, <<>>, FALSE)
    /\ rout = [elem |-> <<"None">>, cons |-> 0]
    /\ steps = 0
    /\ results = <<>>
    /\ refres = RR(NoErr, Nil, DefaultEnv, <<>>)

\* delete_from_list where prev moves to every cell, matching or not
delete_from_list_every(elt, list, eq_fn, heap) ==
    LET RECURSIVE equal(_, _)
        equal(x, y) == IF x[1] = "cell" /\ y[1] = "cell"
                       THEN /\ equal(heap[x[2]].car, heap[y[2]].car)
                            /\ equal(heap[x[2]].cdr, heap[y[2]].cdr)
                       ELSE x = y
        matches(x) == IF eq_fn = "eq" THEN x = elt ELSE equal(x, elt)
        RECURSIVE loop(_, _, _, _)
        loop(iter, head, prev, h) ==
            IF iter = Nil THEN [err |-> NoErr, value |-> head, heap |-> h]
            ELSE LET tail == iter[2]
                     next == h[tail].cdr
                 IN  IF next[1] \notin {"cell", "nil"}
                     THEN [err |-> <<"Found non-nil cdr at end of list">>,
                           value |-> Nil, heap |-> h]
                     ELSE IF matches(h[tail].car)
                     THEN IF prev # 0
                          THEN loop(next, head, tail,
                                    [h EXCEPT ![prev].cdr = h[tail].cdr])
                          ELSE loop(next, h[tail].cdr, tail, h)
                     ELSE loop(next, head, tail, h)
    IN  loop(list, list, 0, heap)

\* delete_from_list: the loop over list.conses(), whose next reads the cdr
\* of the cell before it yields the cell; eq is the identity of the
\* object, equal is obj1 == obj2, which on two conses compares the cars
\* and the cdrs
delete_from_list(elt, list, eq_fn, heap) ==
    LET RECURSIVE equal(_, _)
        equal(x, y) == IF x[1] = "cell" /\ y[1] = "cell"
                       THEN /\ equal(heap[x[2]].car, heap[y[2]].car)
                            /\ equal(heap[x[2]].cdr, heap[y[2]].cdr)
                       ELSE x = y
        matches(x) == IF eq_fn = "eq" THEN x = elt ELSE equal(x, elt)
        RECURSIVE loop(_, _, _, _)
        loop(iter, head, prev, h) ==
            IF iter = Nil THEN [err |-> NoErr, value |-> head, heap |-> h]
            ELSE LET tail == iter[2]
                     next == h[tail].cdr
                 IN  IF next[1] \notin {"cell", "nil"}
                     THEN [err |-> <<"Found non-nil cdr at end of list">>,
                           value |-> Nil, heap |-> h]
                     ELSE IF matches(h[tail].car)
                     THEN IF prev # 0
                          THEN loop(next, head, prev,
                                    [h EXCEPT ![prev].cdr = h[tail].cdr])
                          ELSE loop(next, h[tail].cdr, prev, h)
                     ELSE loop(next, head, tail, h)
    IN  loop(list, list, 0, heap)

\* (delq elt list) and (delete elt list); the next call is made on the
\* list returned
Delete ==
    /\ phase = "idle"
    /\ steps < MaxDeletes
    /\ \E elt \in ListElems : \E op \in {"delq", "delete"} :
       \E r \in {delete_from_list(elt, pending.list,
                                  IF op = "delq" THEN "eq" ELSE "equal", env)} :
           /\ pending' = [op |-> op, elt |-> elt, from |-> pending.list,
                          list |-> r.value]
           /\ env' = r.heap
           /\ results' = <<IF r.err = NoErr THEN r.value ELSE r.err>>
    /\ refenv' = env
    /\ steps' = steps + 1
    /\ UNCHANGED <<dbg, phase, comp, rout, refres>>

\* (plist-get plist prop) on a cons: the loop over
\* plist.elements().zip(plist.elements().skip(1)); a is the cell the first
\* iterator is at and b the cell the second is at, 0 for None
PlistGet ==
    LET RECURSIVE loop(_, _, _)
        loop(a, b, prop) ==
            IF a = 0 \/ b = 0 THEN Nil
            ELSE LET after(c) == IF env[c].cdr[1] = "cell" THEN env[c].cdr[2] ELSE 0
                 IN  IF env[a].car = prop THEN env[b].car
                     ELSE loop(after(a), after(b), prop)
        skip1(c) == IF env[c].cdr[1] = "cell" THEN env[c].cdr[2] ELSE 0
    IN  /\ phase = "idle"
        /\ pending.list # Nil
        /\ \E prop \in ListElems :
               /\ pending' = [op |-> "plist-get", prop |-> prop,
                              from |-> pending.list, list |-> pending.list]
               /\ results' = <<loop(pending.list[2], skip1(pending.list[2]), prop)>>
        /\ refenv' = env
        /\ UNCHANGED <<dbg, env, phase, comp, rout, steps, refres>>

\* ElemStreamIter whose advance leaves elem as it is when cons is None
Stream_keep ==
    \/ /\ phase = "idle"
       /\ pending' = [op |-> "stream", from |-> pending.list, list |-> pending.list]
       /\ rout' = IF pending.list = Nil
                  THEN [elem |-> <<"None">>, cons |-> 0]
                  ELSE [elem |-> <<"Some", Nil>>, cons |-> pending.list[2]]
       /\ results' = <<>>
       /\ refenv' = env
       /\ phase' = "stream"
       /\ UNCHANGED <<dbg, env, comp, steps, refres>>
    \/ /\ phase = "stream"
       /\ Len(results) < MaxList + 2
       /\ \E after \in {IF rout.cons # 0
                        THEN IF rout.elem = <<"None">>
                             THEN [elem |-> <<"panic">>, cons |-> rout.cons]
                             ELSE [elem |-> <<"Some", env[rout.cons].car>>,
                                   cons |-> IF env[rout.cons].cdr[1] = "cell"
                                            THEN env[rout.cons].cdr[2] ELSE 0]
                        ELSE [elem |-> rout.elem, cons |-> 0]} :
              /\ rout' = after
              /\ results' = Append(results, after.elem)
       /\ UNCHANGED <<dbg, pending, env, phase, comp, steps, refenv, refres>>

\* element_iter!(iter, list, gc), then the calls of iter.next(), which is
\* advance() and then get().  rout.cons is the cell in the cons root, 0
\* when the field cons is None; rout.elem is <<"Some", obj>> with the
\* object in the elem root, or <<"None">>; results are what next returned
Stream ==
    \/ /\ phase = "idle"
       /\ pending' = [op |-> "stream", from |-> pending.list, list |-> pending.list]
       /\ rout' = IF pending.list = Nil
                  THEN [elem |-> <<"None">>, cons |-> 0]
                  ELSE [elem |-> <<"Some", Nil>>, cons |-> pending.list[2]]
       /\ results' = <<>>
       /\ refenv' = env
       /\ phase' = "stream"
       /\ UNCHANGED <<dbg, env, comp, steps, refres>>
    \/ /\ phase = "stream"
       /\ Len(results) < MaxList + 2
       /\ \E after \in {IF rout.cons # 0
                        THEN IF rout.elem = <<"None">>
                             THEN [elem |-> <<"panic">>, cons |-> rout.cons]
                             ELSE [elem |-> <<"Some", env[rout.cons].car>>,
                                   cons |-> IF env[rout.cons].cdr[1] = "cell"
                                            THEN env[rout.cons].cdr[2] ELSE 0]
                        ELSE [elem |-> <<"None">>, cons |-> 0]} :
              /\ rout' = after
              /\ results' = Append(results, after.elem)
       /\ UNCHANGED <<dbg, pending, env, phase, comp, steps, refenv, refres>>

SpecList == InitList /\ [][Delete \/ PlistGet \/ Stream]_vars

\* C36: over a list of n elements the first n calls of next() return the
\* n elements in order and every later call returns None; is_empty() is
\* false until the n-th call has been made and true from then on, for
\* nil from the start; the field elem is Some whenever cons is Some, so
\* that the expect in advance never panics
C36_StreamIteration ==
    phase = "stream" =>
        LET RECURSIVE walk(_)
            walk(x) == IF x[1] = "cell" THEN <<env[x[2]].car>> \o walk(env[x[2]].cdr)
                       ELSE <<>>
            xs == walk(pending.list)
            n == Len(xs)
            k == Len(results)
        IN  /\ \A i \in 1..k :
                   results[i] = IF i <= n THEN <<"Some", xs[i]>> ELSE <<"None">>
            /\ (rout.cons = 0) <=> (k >= n)
            /\ rout.cons # 0 => rout.elem[1] = "Some"
            /\ rout.elem # <<"panic">>

\* a list of two elements has been streamed and next() was called a third
\* time
C36_PastTheEnd ==
    /\ phase = "stream"
    /\ pending.list # Nil
    /\ env[pending.list[2]].cdr # Nil
    /\ env[env[pending.list[2]].cdr[2]].cdr = Nil
    /\ results = <<<<"Some", Sym("b")>>, <<"Some", <<"cell", MaxList + 1>>>>, <<"None">>>>
    /\ rout.cons = 0

C39_PlistGet ==
    (pending.op = "plist-get") =>
        LET RECURSIVE walk(_)
            walk(x) == IF x[1] = "cell" THEN <<env[x[2]].car>> \o walk(env[x[2]].cdr)
                       ELSE <<>>
            xs == walk(pending.from)
            props == {i \in 1..Len(xs) : i % 2 = 1 /\ xs[i] = pending.prop}
            first == CHOOSE i \in props : \A j \in props : i <= j
        IN  IF props = {} THEN results = <<Nil>>
            ELSE first < Len(xs) => results = <<xs[first + 1]>>


(***************************************************************************)
(* load: the loop of load_internal over the text of a file.  pending is    *)
(* the text, a sequence of items, each the text of one form or of          *)
(* something the reader refuses, with the number of characters the reader  *)
(* consumes for it; steps is pos, refenv the Environment handed to eval,   *)
(* results the forms evaluated with what eval returned, rout what          *)
(* load_internal returned.                                                 *)
(***************************************************************************)
\* the most items of a text
MaxForms == 3
\* the bound of an evaluation that load starts: (while t) does not end
\* within it, the other forms do
MaxLoadEval == 6

\* the texts of up to MaxForms items among (setq foo 1), (setq bar foo),
\* baz, (while t) and a closing parenthesis without an opening one
InitLoad ==
    /\ dbg = FALSE
    /\ \E n \in 0..MaxForms :
           pending \in [1..n ->
               {[kind |-> "form", width |-> 13, err |-> NoErr,
                 form |-> L(<<Sym("setq"), Sym("foo"), IntObj(1)>>)],
                [kind |-> "form", width |-> 15, err |-> NoErr,
                 form |-> L(<<Sym("setq"), Sym("bar"), Sym("foo")>>)],
                [kind |-> "form", width |-> 4, err |-> NoErr, form |-> Sym("baz")],
                [kind |-> "form", width |-> 10, err |-> NoErr,
                 form |-> L(<<Sym("while"), <<"t">>>>)],
                [kind |-> "bad", width |-> 1, err |-> <<"ExtraCloseParen">>,
                 form |-> Nil]}]
    /\ env = DefaultEnv
    /\ phase = "load"
    /\ comp = NewCompiler(<<>>, DefaultEnv, 0, <<>>, FALSE)
    /\ rout = [ret |-> <<"none">>]
    /\ steps = 0
    /\ results = <<>>
    /\ refenv = DefaultEnv
    /\ refres = RR(NoErr, Nil, DefaultEnv, <<>>)

\* load_internal that hands every form a fresh Environment
Load_fresh ==
    /\ phase = "load"
    /\ LET RECURSIVE offset(_)
           \* where the text of item i ends
           offset(i) == IF i = 0 THEN 0 ELSE offset(i - 1) + pending[i].width
           at == {i \in 1..Len(pending) : offset(i - 1) = steps}
           item == pending[CHOOSE i \in at : TRUE]
       IN  IF at = {}
           THEN \* Err(EmptyStream) => return Ok(true)
                /\ phase' = "done"
                /\ rout' = [ret |-> <<"Ok", TRUE>>]
                /\ UNCHANGED <<steps, refenv, refres, results>>
           ELSE IF item.kind = "bad"
           THEN \* Err(e) => e.update_pos(pos), bail!(e)
                /\ phase' = "halt"
                /\ rout' = [ret |-> <<"Err", item.err, steps>>]
                /\ UNCHANGED <<steps, refenv, refres, results>>
           ELSE \E r \in {RefEval(item.form, <<>>, DefaultEnv, MaxLoadEval)} :
                /\ refres' = r
                /\ refenv' = r.env
                /\ IF r.err = <<"diverges">>
                   THEN \* eval does not return
                        /\ phase' = "eval"
                        /\ UNCHANGED <<steps, rout, results>>
                   ELSE /\ results' = Append(results, [form |-> item.form,
                                                       err |-> r.err,
                                                       value |-> r.value])
                        /\ IF r.err # NoErr
                           THEN \* interpreter::eval(..)?
                                /\ phase' = "halt"
                                /\ rout' = [ret |-> <<"Err", r.err>>]
                                /\ steps' = steps
                           ELSE IF item.width = 0
                           THEN \* assert_ne!(new_pos, 0)
                                /\ phase' = "panic"
                                /\ UNCHANGED <<steps, rout>>
                           ELSE /\ phase' = "load"
                                /\ steps' = steps + item.width
                                /\ UNCHANGED rout
    /\ UNCHANGED <<dbg, pending, env, comp>>

\* one turn of the loop of load_internal: reader::read at pos, which gives
\* the next form and the number of characters consumed, EmptyStream at the
\* end of the text or another error; then interpreter::eval of the form in
\* the Environment; then pos += new_pos
Load ==
    /\ phase = "load"
    /\ LET RECURSIVE offset(_)
           \* where the text of item i ends
           offset(i) == IF i = 0 THEN 0 ELSE offset(i - 1) + pending[i].width
           at == {i \in 1..Len(pending) : offset(i - 1) = steps}
           item == pending[CHOOSE i \in at : TRUE]
       IN  IF at = {}
           THEN \* Err(EmptyStream) => return Ok(true)
                /\ phase' = "done"
                /\ rout' = [ret |-> <<"Ok", TRUE>>]
                /\ UNCHANGED <<steps, refenv, refres, results>>
           ELSE IF item.kind = "bad"
           THEN \* Err(e) => e.update_pos(pos), bail!(e)
                /\ phase' = "halt"
                /\ rout' = [ret |-> <<"Err", item.err, steps>>]
                /\ UNCHANGED <<steps, refenv, refres, results>>
           ELSE \E r \in {RefEval(item.form, <<>>, refenv, MaxLoadEval)} :
                /\ refres' = r
                /\ refenv' = r.env
                /\ IF r.err = <<"diverges">>
                   THEN \* eval does not return
                        /\ phase' = "eval"
                        /\ UNCHANGED <<steps, rout, results>>
                   ELSE /\ results' = Append(results, [form |-> item.form,
                                                       err |-> r.err,
                                                       value |-> r.value])
                        /\ IF r.err # NoErr
                           THEN \* interpreter::eval(..)?
                                /\ phase' = "halt"
                                /\ rout' = [ret |-> <<"Err", r.err>>]
                                /\ steps' = steps
                           ELSE IF item.width = 0
                           THEN \* assert_ne!(new_pos, 0)
                                /\ phase' = "panic"
                                /\ UNCHANGED <<steps, rout>>
                           ELSE /\ phase' = "load"
                                /\ steps' = steps + item.width
                                /\ UNCHANGED rout
    /\ UNCHANGED <<dbg, pending, env, comp>>

SpecLoad == InitLoad /\ [][Load]_vars /\ WF_vars(Load)

\* C37: the forms evaluated are the first forms of the text, in the order
\* of the text, each in the Environment the forms before it left; the read
\* position is the end of the last form evaluated without an error;
\* load_internal returns true only when every item of the text was read
\* and evaluated without an error, and returns an error only for the first
\* item that cannot be read or whose evaluation fails, with the
\* Environment as the evaluated forms left it; a turn of the loop after
\* which the loop goes on has moved the read position forward; and the
\* loop is left on every text, by a return or inside an evaluation that
\* does not end
C37_LoadInOrder ==
    /\ [](LET RECURSIVE offset(_)
               offset(i) == IF i = 0 THEN 0 ELSE offset(i - 1) + pending[i].width
               RECURSIVE envAfter(_)
               envAfter(i) == IF i = 0 THEN DefaultEnv
                              ELSE RefEval(pending[i].form, <<>>, envAfter(i - 1), MaxLoadEval).env
               k == Len(results)
               good == {i \in 1..k : results[i].err = NoErr}
          IN  /\ k <= Len(pending)
              /\ \A i \in 1..k : /\ pending[i].kind = "form"
                                 /\ results[i].form = pending[i].form
              /\ \A i \in 1..(k - 1) : i \in good
              /\ steps = offset(Cardinality(good))
              /\ phase # "eval" => refenv = envAfter(k)
              /\ phase = "load" => good = 1..k
              /\ phase = "done" => /\ good = 1..Len(pending)
                                   /\ rout.ret = <<"Ok", TRUE>>
              /\ phase = "halt" =>
                     IF good = 1..k
                     THEN /\ k < Len(pending)
                          /\ pending[k + 1].kind = "bad"
                          /\ rout.ret = <<"Err", pending[k + 1].err, offset(k)>>
                     ELSE rout.ret = <<"Err", results[k].err>>
              /\ phase = "eval" =>
                     /\ good = 1..k
                     /\ RefEval(pending[k + 1].form, <<>>, envAfter(k), MaxLoadEval).err
                            = <<"diverges">>
              /\ phase # "panic")
    /\ [][phase' = "load" => steps' > steps]_vars
    /\ <>(phase # "load")

\* the text (setq foo 1) (setq bar foo) baz has been loaded: bar got the
\* value of foo, and the load ended with the error of the third form
C37_StoppedAtThird ==
    /\ phase = "halt"
    /\ Len(pending) = 3
    /\ Len(results) = 3
    /\ refenv.vars["foo"] = IntObj(1)
    /\ refenv.vars["bar"] = IntObj(1)
    /\ rout.ret = <<"Err", <<"VoidVariable", "baz">>>>
    /\ steps = 28

====
